---- MODULE Spec2Model ----
(***************************************************************************)
(* Model of the wallet (access structure) evaluation code:                 *)
(*   src/helpers/wallet_enumerations.py and src/helpers/computations.py.   *)
(*                                                                         *)
(* Probabilities are Python floats (IEEE-754 binary64).  They are modelled *)
(* bit-exactly: a float is a sign, an arbitrary-precision mantissa and a   *)
(* binary exponent, and every arithmetic operation rounds its exact result *)
(* to 53 significant bits, ties to even.  Exponent overflow, underflow and *)
(* subnormals are not modelled: the values of this program stay far from   *)
(* both ends of the exponent range.                                        *)
(***************************************************************************)
EXTENDS Integers, Sequences, FiniteSets, TLC

(***************************************************************************)
(* Arbitrary-precision naturals: little-endian sequences of limbs in base  *)
(* 2^15, without high zero limbs (zero is the empty sequence).  They carry *)
(* the mantissas of the floats, which do not fit a machine integer of the  *)
(* model checker.                                                          *)
(***************************************************************************)
Pow2(n) == 2 ^ n

LimbBase == Pow2(15)

RECURSIVE BitLenSmall(_)
BitLenSmall(x) == IF x = 0 THEN 0 ELSE 1 + BitLenSmall(x \div 2)

LimbBits == BitLenSmall(LimbBase - 1)

Limb(a, i) == IF i <= Len(a) THEN a[i] ELSE 0

RECURSIVE Trim(_)
Trim(a) ==
    IF Len(a) > 0 /\ a[Len(a)] = 0 THEN Trim(SubSeq(a, 1, Len(a) - 1)) ELSE a

RECURSIVE NatFromInt(_)
NatFromInt(n) ==
    IF n = 0 THEN <<>> ELSE <<n % LimbBase>> \o NatFromInt(n \div LimbBase)

RECURSIVE AddFrom(_, _, _, _)
AddFrom(a, b, i, carry) ==
    IF i > Len(a) /\ i > Len(b)
    THEN IF carry = 0 THEN <<>> ELSE <<carry>>
    ELSE LET t == Limb(a, i) + Limb(b, i) + carry
         IN  <<t % LimbBase>> \o AddFrom(a, b, i + 1, t \div LimbBase)

NatAdd(a, b) == Trim(AddFrom(a, b, 1, 0))

\* a - b for a >= b
RECURSIVE SubFrom(_, _, _, _)
SubFrom(a, b, i, borrow) ==
    IF i > Len(a)
    THEN <<>>
    ELSE LET t == a[i] - Limb(b, i) - borrow
         IN  IF t < 0
             THEN <<t + LimbBase>> \o SubFrom(a, b, i + 1, 1)
             ELSE <<t>> \o SubFrom(a, b, i + 1, 0)

NatSub(a, b) == Trim(SubFrom(a, b, 1, 0))

\* -1, 0 or 1 as a < b, a = b, a > b; compares from the high limb down
RECURSIVE CmpFrom(_, _, _)
CmpFrom(a, b, i) ==
    IF i = 0 THEN 0
    ELSE IF a[i] < b[i] THEN -1
    ELSE IF a[i] > b[i] THEN 1
    ELSE CmpFrom(a, b, i - 1)

NatCmp(a, b) ==
    IF Len(a) < Len(b) THEN -1
    ELSE IF Len(a) > Len(b) THEN 1
    ELSE CmpFrom(a, b, Len(a))

\* a * d for one limb d
RECURSIVE MulLimbFrom(_, _, _, _)
MulLimbFrom(a, d, i, carry) ==
    IF i > Len(a)
    THEN IF carry = 0 THEN <<>> ELSE <<carry>>
    ELSE LET t == a[i] * d + carry
         IN  <<t % LimbBase>> \o MulLimbFrom(a, d, i + 1, t \div LimbBase)

MulLimb(a, d) == Trim(MulLimbFrom(a, d, 1, 0))

RECURSIVE MulFrom(_, _, _)
MulFrom(a, b, j) ==
    IF j > Len(b)
    THEN <<>>
    ELSE AddFrom(MulLimbFrom(a, b[j], 1, 0), <<0>> \o MulFrom(a, b, j + 1), 1, 0)

NatMul(a, b) == Trim(MulFrom(a, b, 1))

\* floor(a / d) and a mod d for one non-zero limb d, from the high limb down
RECURSIVE DivLimbFrom(_, _, _, _, _)
DivLimbFrom(a, d, i, rem, quo) ==
    IF i = 0
    THEN [q |-> Trim(quo), r |-> rem]
    ELSE LET cur == rem * LimbBase + a[i]
         IN  DivLimbFrom(a, d, i - 1, cur % d, <<cur \div d>> \o quo)

DivLimb(a, d) == DivLimbFrom(a, d, Len(a), 0, <<>>)

Zeros(n) == [i \in 1..n |-> 0]

\* a * 2^n
NatShl(a, n) ==
    IF a = <<>> THEN <<>>
    ELSE Zeros(n \div LimbBits) \o MulLimb(a, Pow2(n % LimbBits))

\* floor(a / 2^n)
NatShr(a, n) ==
    LET q == n \div LimbBits
    IN  IF q >= Len(a) THEN <<>>
        ELSE DivLimb(SubSeq(a, q + 1, Len(a)), Pow2(n % LimbBits)).q

BitLen(a) ==
    IF a = <<>> THEN 0 ELSE LimbBits * (Len(a) - 1) + BitLenSmall(a[Len(a)])

NatOdd(a) == a # <<>> /\ a[1] % 2 = 1

RECURSIVE TrailingZeroBits(_)
TrailingZeroBits(x) == IF x % 2 = 1 THEN 0 ELSE 1 + TrailingZeroBits(x \div 2)

\* number of trailing zero bits of a non-zero natural
RECURSIVE NatTrailingZeros(_, _)
NatTrailingZeros(a, i) ==
    IF a[i] = 0 THEN LimbBits + NatTrailingZeros(a, i + 1)
    ELSE TrailingZeroBits(a[i])

(***************************************************************************)
(* Floats.  [s, m, e] stands for (-1)^s * m * 2^e.  The representation is  *)
(* canonical (m odd, or zero as [0, <<>>, 0]), so that equality of records *)
(* is equality of values, as Python's == on floats.                        *)
(***************************************************************************)
Precision == 53

FZero == [s |-> 0, m |-> <<>>, e |-> 0]

Norm(s, m, e) ==
    IF m = <<>> THEN FZero
    ELSE LET z == NatTrailingZeros(m, 1)
         IN  [s |-> s, m |-> NatShr(m, z), e |-> e + z]

\* the float nearest to (-1)^s * m * 2^e, ties to even
RoundNE(s, m, e) ==
    LET len == BitLen(m)
    IN  IF len <= Precision THEN Norm(s, m, e)
        ELSE LET sh   == len - Precision
                 q    == NatShr(m, sh)
                 rem  == NatSub(m, NatShl(q, sh))
                 c    == NatCmp(rem, NatShl(<<1>>, sh - 1))
                 up   == c > 0 \/ (c = 0 /\ NatOdd(q))
             IN  Norm(s, IF up THEN NatAdd(q, <<1>>) ELSE q, e + sh)

FFromInt(n) == IF n < 0 THEN Norm(1, NatFromInt(-n), 0) ELSE Norm(0, NatFromInt(n), 0)

FNeg(x) == IF x.m = <<>> THEN x ELSE [x EXCEPT !.s = 1 - x.s]

FAbs(x) == [x EXCEPT !.s = 0]

\* faulty variant: the second factor is dropped
FMul_first_factor(x, y) == x

FMul(x, y) ==
    IF x.m = <<>> \/ y.m = <<>> THEN FZero
    ELSE RoundNE((x.s + y.s) % 2, NatMul(x.m, y.m), x.e + y.e)

\* the exact sum, as a sign, a natural and an exponent
ExactSum(x, y) ==
    IF x.m = <<>> THEN y
    ELSE IF y.m = <<>> THEN x
    ELSE LET e  == IF x.e < y.e THEN x.e ELSE y.e
             xm == NatShl(x.m, x.e - e)
             ym == NatShl(y.m, y.e - e)
             c  == NatCmp(xm, ym)
         IN  IF x.s = y.s THEN [s |-> x.s, m |-> NatAdd(xm, ym), e |-> e]
             ELSE IF c = 0 THEN FZero
             ELSE IF c > 0 THEN [s |-> x.s, m |-> NatSub(xm, ym), e |-> e]
             ELSE [s |-> y.s, m |-> NatSub(ym, xm), e |-> e]

FAdd(x, y) == LET t == ExactSum(x, y) IN RoundNE(t.s, t.m, t.e)

FSub(x, y) == FAdd(x, FNeg(y))

\* x < y, exactly
FLess(x, y) == LET t == ExactSum(x, FNeg(y)) IN t.m # <<>> /\ t.s = 1

\* a / n for integers a >= 0 and 0 < n < 2^15, correctly rounded (Python's a / n)
FDivInt(a, n) ==
    LET d      == DivLimb(NatShl(NatFromInt(a), 5 * LimbBits), n)
        sticky == IF d.r = 0 THEN <<>> ELSE <<1>>
    IN  RoundNE(0, NatAdd(NatShl(d.q, 1), sticky), -(5 * LimbBits) - 1)

\* one step of the long division by b: the bit of weight 2^i of the quotient
DivBit(b, i, acc) ==
    LET shifted == NatShl(b, i)
    IN  IF NatCmp(acc.r, shifted) < 0 THEN acc
        ELSE [q |-> NatAdd(acc.q, NatShl(<<1>>, i)), r |-> NatSub(acc.r, shifted)]

\* the bits of weight 2^hi down to 2^lo; the range is halved so that the
\* evaluation stays shallow, and the test on first makes the intermediate
\* result a value before the second half starts
RECURSIVE DivBits(_, _, _, _)
DivBits(b, hi, lo, acc) ==
    IF hi < lo THEN acc
    ELSE IF hi = lo THEN DivBit(b, hi, acc)
    ELSE LET mid == (hi + lo) \div 2
             first == DivBits(b, hi, mid + 1, acc)
         IN  IF Len(first.q) >= 0 THEN DivBits(b, mid, lo, first) ELSE first

\* floor(a / b) and a mod b for naturals, b non-zero
NatDivMod(a, b) == DivBits(b, BitLen(a) - BitLen(b), 0, [q |-> <<>>, r |-> a])

\* x / y for y non-zero, correctly rounded (Python's x / y)
FDiv(x, y) ==
    IF x.m = <<>> THEN FZero
    ELSE LET shift == Precision + 2 + BitLen(y.m)
             d == NatDivMod(NatShl(x.m, shift), y.m)
             sticky == IF d.r = <<>> THEN <<>> ELSE <<1>>
         IN  RoundNE((x.s + y.s) % 2, NatAdd(NatShl(d.q, 1), sticky),
                     x.e - y.e - shift - 1)

\* the value of a natural that fits an integer
RECURSIVE NatToInt(_)
NatToInt(a) == IF a = <<>> THEN 0 ELSE a[1] + LimbBase * NatToInt(Tail(a))

\* the integer part and the position of the fraction of |x|: whole is
\* floor(|x|), frac compares the fraction with one half (-2: the fraction is
\* zero, -1: below one half, 0: one half, 1: above)
FParts(x) ==
    IF x.m = <<>> \/ x.e >= 0
    THEN [whole |-> NatToInt(NatShl(x.m, IF x.m = <<>> THEN 0 ELSE x.e)), frac |-> -2]
    ELSE LET whole == NatShr(x.m, -x.e)
             rest == NatSub(x.m, NatShl(whole, -x.e))
         IN  [whole |-> NatToInt(whole),
              frac |-> IF rest = <<>> THEN -2
                       ELSE NatCmp(rest, NatShl(<<1>>, -x.e - 1))]

\* int(round(x)): to the nearest integer, ties to the even one
FRound(x) ==
    LET t == FParts(x)
        up == t.frac = 1 \/ (t.frac = 0 /\ t.whole % 2 = 1)
        n == IF up THEN t.whole + 1 ELSE t.whole
    IN  IF x.s = 1 THEN -n ELSE n

\* int(math.floor(x))
FFloor(x) ==
    LET t == FParts(x)
    IN  IF x.s = 0 THEN t.whole
        ELSE IF t.frac = -2 THEN -t.whole ELSE -t.whole - 1

\* int(math.ceil(x))
FCeil(x) ==
    LET t == FParts(x)
    IN  IF x.s = 1 THEN -t.whole
        ELSE IF t.frac = -2 THEN t.whole ELSE t.whole + 1

(***************************************************************************)
(* Bit operations on non-negative integers (Python's & and |).             *)
(***************************************************************************)
RECURSIVE BitAnd(_, _)
BitAnd(a, b) ==
    IF a = 0 \/ b = 0 THEN 0
    ELSE (a % 2) * (b % 2) + 2 * BitAnd(a \div 2, b \div 2)

RECURSIVE BitOr(_, _)
BitOr(a, b) ==
    IF a = 0 THEN b
    ELSE IF b = 0 THEN a
    ELSE (IF a % 2 = 1 \/ b % 2 = 1 THEN 1 ELSE 0) + 2 * BitOr(a \div 2, b \div 2)

(***************************************************************************)
(* consts.py: the four key states.  sorted(KeyStates) is taken to be the   *)
(* order of KeyStates itself.                                              *)
(***************************************************************************)
SAFE == "SAFE"
LOST == "LOST"
LEAKED == "LEAKED"
STOLEN == "STOLEN"

KeyStates == <<SAFE, LOST, LEAKED, STOLEN>>

SortedKeyStates == KeyStates

KeyStateSet == {KeyStates[i] : i \in 1..Len(KeyStates)}

(***************************************************************************)
(* wallet_enumerations.py                                                  *)
(***************************************************************************)
\* faulty variant: the operands of the comparison exchanged
isCovered_swapped(keyCombination, wallet) ==
    \E j \in 1..Len(wallet) : BitAnd(wallet[j], keyCombination) = keyCombination

\* faulty variant: return False inside the loop, after the first combination
isCovered_first(keyCombination, wallet) ==
    Len(wallet) >= 1 /\ BitAnd(wallet[1], keyCombination) = wallet[1]

\* for walletCombination in wallet: if walletCombination & keyCombination ==
\* walletCombination: return True; return False
isCovered(keyCombination, wallet) ==
    \E j \in 1..Len(wallet) : BitAnd(wallet[j], keyCombination) = wallet[j]

\* faulty variant: the range ends one combination early
combiLimit_short(keyCount) == 2 ^ keyCount - 1

\* the end of range(prevCombi + 1, 2 ** keyCount), exclusive
combiLimit(keyCount) == 2 ^ keyCount

\* the body of the loop over currCombi, from currCombi to 2 ** keyCount - 1
RECURSIVE enumerateStaticSubWallets(_, _, _)
RECURSIVE enumerateStaticSubWalletsFrom(_, _, _)
\* faulty variant: the subwallets of a combination are added before the wallet
\* that ends with it
enumerateStaticSubWalletsFrom_subwallets_first(baseWallet, currCombi, keyCount) ==
    IF currCombi >= combiLimit(keyCount)
    THEN <<>>
    ELSE LET currWallet == baseWallet \o <<currCombi>>
             found ==
                 IF ~isCovered(currCombi, baseWallet)
                 THEN enumerateStaticSubWallets(currWallet, currCombi, keyCount)
                      \o <<currWallet>>
                 ELSE <<>>
         IN  found \o enumerateStaticSubWalletsFrom(baseWallet, currCombi + 1, keyCount)

enumerateStaticSubWalletsFrom(baseWallet, currCombi, keyCount) ==
    IF currCombi >= combiLimit(keyCount)
    THEN <<>>
    ELSE LET currWallet == baseWallet \o <<currCombi>>
             found ==
                 IF ~isCovered(currCombi, baseWallet)
                 THEN <<currWallet>>
                      \o enumerateStaticSubWallets(currWallet, currCombi, keyCount)
                 ELSE <<>>
         IN  found \o enumerateStaticSubWalletsFrom(baseWallet, currCombi + 1, keyCount)

enumerateStaticSubWallets(baseWallet, prevCombi, keyCount) ==
    enumerateStaticSubWalletsFrom(baseWallet, prevCombi + 1, keyCount)

\* without deduplication
enumerateStaticWallets(keyCount) == enumerateStaticSubWallets(<<>>, 0, keyCount)

\* faulty variant: an empty result is returned instead of the exception
Raised_empty_result(what) == [ok |-> TRUE, states |-> <<>>, probabilities |-> <<>>]

Raised(what) == [ok |-> FALSE, error |-> what]

\* (states, probabilities), or the exception raised
RECURSIVE enumerateStates(_, _)
\* faulty variant: the probability of the first key's state is not multiplied in
enumerateStates_first_key_unweighted(keyCount, keyStateProbabilities) ==
    IF keyCount <= 0 THEN Raised("Exception")
    ELSE IF keyCount = 1
    THEN IF \E i \in 1..Len(SortedKeyStates) :
                SortedKeyStates[i] \notin DOMAIN keyStateProbabilities
         THEN Raised("KeyError")
         ELSE [ok |-> TRUE,
               states |-> [i \in 1..Len(SortedKeyStates) |-> <<SortedKeyStates[i]>>],
               probabilities |->
                   [i \in 1..Len(SortedKeyStates) |->
                       keyStateProbabilities[SortedKeyStates[i]]]]
    ELSE IF DOMAIN keyStateProbabilities # KeyStateSet THEN Raised("AssertionError")
    ELSE LET sub == enumerateStates(keyCount - 1, keyStateProbabilities)
         IN  IF ~sub.ok THEN sub
             ELSE LET n == Len(sub.states)
                      keyStateAt(i) == KeyStates[((i - 1) \div n) + 1]
                      iSuffix(i) == ((i - 1) % n) + 1
                  IN  [ok |-> TRUE,
                       states |->
                           [i \in 1..(Len(KeyStates) * n) |->
                               <<keyStateAt(i)>> \o sub.states[iSuffix(i)]],
                       probabilities |->
                           [i \in 1..(Len(KeyStates) * n) |->
                               sub.probabilities[iSuffix(i)]]]

enumerateStates(keyCount, keyStateProbabilities) ==
    IF keyCount <= 0 THEN Raised("Exception")
    ELSE IF keyCount = 1
    THEN IF \E i \in 1..Len(SortedKeyStates) :
                SortedKeyStates[i] \notin DOMAIN keyStateProbabilities
         THEN Raised("KeyError")
         ELSE [ok |-> TRUE,
               states |-> [i \in 1..Len(SortedKeyStates) |-> <<SortedKeyStates[i]>>],
               probabilities |->
                   [i \in 1..Len(SortedKeyStates) |->
                       keyStateProbabilities[SortedKeyStates[i]]]]
    ELSE IF DOMAIN keyStateProbabilities # KeyStateSet THEN Raised("AssertionError")
    ELSE LET sub == enumerateStates(keyCount - 1, keyStateProbabilities)
         IN  IF ~sub.ok THEN sub
             ELSE LET n == Len(sub.states)
                      keyStateAt(i) == KeyStates[((i - 1) \div n) + 1]
                      iSuffix(i) == ((i - 1) % n) + 1
                  IN  [ok |-> TRUE,
                       states |->
                           [i \in 1..(Len(KeyStates) * n) |->
                               <<keyStateAt(i)>> \o sub.states[iSuffix(i)]],
                       probabilities |->
                           [i \in 1..(Len(KeyStates) * n) |->
                               FMul(keyStateProbabilities[keyStateAt(i)],
                                    sub.probabilities[iSuffix(i)])]]

\* faulty variant: the owner's and the adversary's bit exchanged
bools_exchanged(keyState) ==
    CASE keyState = SAFE -> <<0, 1>>
      [] keyState = LOST -> <<0, 0>>
      [] keyState = LEAKED -> <<1, 1>>
      [] keyState = STOLEN -> <<1, 0>>

\* the (owner, adversary) bits of a key state
bools(keyState) ==
    CASE keyState = SAFE -> <<1, 0>>
      [] keyState = LOST -> <<0, 0>>
      [] keyState = LEAKED -> <<1, 1>>
      [] keyState = STOLEN -> <<0, 1>>

RECURSIVE maskOf(_, _, _)
maskOf(state, which, i) ==
    IF i >= Len(state) THEN 0
    ELSE bools(state[i + 1])[which] * 2 ^ i + maskOf(state, which, i + 1)

ownerAdvKeysFromStates(states) ==
    [ownerStates |-> [n \in 1..Len(states) |-> maskOf(states[n], 1, 0)],
     advStates |-> [n \in 1..Len(states) |-> maskOf(states[n], 2, 0)]]

\* for i, target_pos in enumerate(permutation, start=1)
RECURSIVE permuteBitsFrom(_, _, _)
permuteBitsFrom(number, permutation, i) ==
    IF i > Len(permutation) THEN 0
    ELSE BitOr(IF BitAnd(number, 2 ^ (i - 1)) # 0 THEN 2 ^ (permutation[i] - 1) ELSE 0,
               permuteBitsFrom(number, permutation, i + 1))

\* faulty variant: 1 << target_pos, the target position taken as 0-based
permuteBits_zero_based(number, permutation) ==
    2 * permuteBitsFrom(number, permutation, 1)

permuteBits(number, permutation) == permuteBitsFrom(number, permutation, 1)

(***************************************************************************)
(* computations.py                                                         *)
(***************************************************************************)
\* the loop over range(len(probabilities)), for the indices lo..hi (1-based) in
\* increasing order, starting from the running total; the range is halved so
\* that the evaluation stays shallow, and the test on first makes the running
\* total a value before the second half starts; the additions are the loop's,
\* in the loop's order
RECURSIVE successFrom(_, _, _, _, _, _, _)
successFrom(wallet, ownerStates, advStates, probabilities, lo, hi, total) ==
    IF lo > hi THEN total
    ELSE IF lo = hi
    THEN LET owner_ok == isCovered(ownerStates[lo], wallet)
             adv_ok == isCovered(advStates[lo], wallet)
         IN  IF owner_ok /\ ~adv_ok THEN FAdd(total, probabilities[lo]) ELSE total
    ELSE LET mid == (lo + hi) \div 2
             first == successFrom(wallet, ownerStates, advStates, probabilities,
                                  lo, mid, total)
         IN  IF first.s \in {0, 1}
             THEN successFrom(wallet, ownerStates, advStates, probabilities,
                              mid + 1, hi, first)
             ELSE first

\* faulty variant: the owner's and the adversary's states exchanged
computeSuccessProbability_exchanged(wallet, ownerStates, advStates, probabilities) ==
    successFrom(wallet, advStates, ownerStates, probabilities,
                1, Len(probabilities), FZero)

computeSuccessProbability(wallet, ownerStates, advStates, probabilities) ==
    successFrom(wallet, ownerStates, advStates, probabilities,
                1, Len(probabilities), FZero)

\* abs(p - best_prob) < 1e-12
EPS == [s |-> 0, m |-> <<27153, 603, 24166, 140>>, e |-> -92]

\* the tolerance of the tests and of the validation of a profile, 1e-9
TOL == [s |-> 0, m |-> <<22165, 20557, 14383, 137>>, e |-> -82]

MinusOne == FFromInt(-1)

\* faulty variant: best_prob starts at 0.0
initialBest_zero == [best_wallets |-> <<>>, best_prob |-> FZero]

\* best_wallets = []; best_prob = -1.0
initialBest == [best_wallets |-> <<>>, best_prob |-> MinusOne]

\* faulty variant: a tie window of 1e-9 instead of 1e-12
scanStep_wide(best_wallets_, best_prob_, wallet_, p_) ==
    IF FLess(FAbs(FSub(p_, best_prob_)), TOL)
    THEN [best_wallets |-> Append(best_wallets_, wallet_), best_prob |-> best_prob_]
    ELSE IF FLess(best_prob_, p_)
    THEN [best_wallets |-> <<wallet_>>, best_prob |-> p_]
    ELSE [best_wallets |-> best_wallets_, best_prob |-> best_prob_]

\* faulty variant: a greater candidate replaces the list, best_prob is not updated
scanStep_stale(best_wallets_, best_prob_, wallet_, p_) ==
    IF FLess(FAbs(FSub(p_, best_prob_)), EPS)
    THEN [best_wallets |-> Append(best_wallets_, wallet_), best_prob |-> best_prob_]
    ELSE IF FLess(best_prob_, p_)
    THEN [best_wallets |-> <<wallet_>>, best_prob |-> best_prob_]
    ELSE [best_wallets |-> best_wallets_, best_prob |-> best_prob_]

\* one iteration of the loop of findOptimalWallet, p being the candidate's
\* success probability
scanStep(best_wallets_, best_prob_, wallet_, p_) ==
    IF FLess(FAbs(FSub(p_, best_prob_)), EPS)
    THEN [best_wallets |-> Append(best_wallets_, wallet_), best_prob |-> best_prob_]
    ELSE IF FLess(best_prob_, p_)
    THEN [best_wallets |-> <<wallet_>>, best_prob |-> p_]
    ELSE [best_wallets |-> best_wallets_, best_prob |-> best_prob_]

\* probs.get(SAFE, 0.0) + probs.get(LOST, 0.0) + probs.get(LEAKED, 0.0)
\* + probs.get(STOLEN, 0.0)
profileGet(probs, keyState) ==
    IF keyState \in DOMAIN probs THEN probs[keyState] ELSE FZero

profileTotal(probs) ==
    FAdd(FAdd(FAdd(profileGet(probs, SAFE), profileGet(probs, LOST)),
              profileGet(probs, LEAKED)),
         profileGet(probs, STOLEN))

\* faulty variant: the total is not checked
profileSumsToOne_unchecked(probs) == TRUE

\* not (abs(total - 1.0) > 1e-9)
profileSumsToOne(probs) ==
    ~FLess(TOL, FAbs(FSub(profileTotal(probs), FFromInt(1))))

(***************************************************************************)
(* Bounds of the model and the inputs of the calls.                        *)
(***************************************************************************)
\* key counts of the enumeration
MaxKeys == 3

\* key counts of findOptimalWallet
MaxFindKeys == 2

\* key counts of the symmetry check
MaxSymKeys == 3

\* key counts of canonicalizeWallet
MaxCanonKeys == 3

\* wallets of the enumeration handed to canonicalizeWallet
MaxCanonPool == 12

\* key counts of deduplicateWalletsByArchitecture on a given list
MaxDedupKeys == 2

\* key counts of a direct call of enumerateStates
MaxStateKeys == 3

\* the profiles of a direct call of enumerateStates are multiples of
\* 1 / GridSteps
GridSteps == 5

\* length of a candidate list drawn from the pool
MaxCand == 3

\* wallets of the enumeration taken as candidates
MaxPool == 4

\* keys of a direct call of computeSuccessProbability
DirectKeys == 2

\* length of the state lists of a direct call
MaxDirect == 2

Profile(safe, lost, leaked, stolen) ==
    (SAFE :> safe) @@ (LOST :> lost) @@ (LEAKED :> leaked) @@ (STOLEN :> stolen)

\* the profile of the tests: 0.8, 0.1, 0.05, 0.05
ProfileTests ==
    Profile(FDivInt(8, 10), FDivInt(1, 10), FDivInt(5, 100), FDivInt(5, 100))

\* a point of the grid of step 0.1: 0.2, 0.1, 0.4, 0.3
ProfileGrid ==
    Profile(FDivInt(2, 10), FDivInt(1, 10), FDivInt(4, 10), FDivInt(3, 10))

\* a point of the grid of step 0.1 with two zeros: 0.1, 0.0, 0.0, 0.9
ProfileSkew == Profile(FDivInt(1, 10), FZero, FZero, FDivInt(9, 10))

\* 0.25 each
ProfileUniform ==
    Profile(FDivInt(1, 4), FDivInt(1, 4), FDivInt(1, 4), FDivInt(1, 4))

\* 0.5, 0.2499999999993, 0.2500000000006, 1.0000000000000008e-13: sums to 1.0
ProfileNear ==
    Profile(FDivInt(1, 2),
            [s |-> 0, m |-> <<26463, 32767, 32767, 63>>, e |-> -53],
            [s |-> 0, m |-> <<10809, 0, 0, 128>>, e |-> -54],
            [s |-> 0, m |-> <<11985, 6674, 4833, 28>>, e |-> -93])

\* 0.9999993513055667, 0.0, 6.486944333361304e-07, 0.0: sums to 1.0
ProfileEdge ==
    Profile([s |-> 0, m |-> <<16859, 21623, 32767, 15>>, e |-> -49],
            FZero,
            [s |-> 0, m |-> <<32583, 18959, 4344, 174>>, e |-> -73],
            FZero)

\* a profile without an entry for STOLEN
ProfileIncomplete ==
    (SAFE :> FDivInt(1, 2)) @@ (LOST :> FDivInt(1, 4)) @@ (LEAKED :> FDivInt(1, 4))

CompleteProfiles ==
    {ProfileTests, ProfileGrid, ProfileSkew, ProfileUniform, ProfileNear,
     ProfileEdge}

Profiles == CompleteProfiles \cup {ProfileIncomplete}

Range(seq) == {seq[i] : i \in 1..Len(seq)}

\* the first MaxPool wallets of the enumeration for keyCount keys
Pool(keyCount_) ==
    LET all == enumerateStaticWallets(keyCount_)
    IN  {all[i] : i \in {j \in 1..Len(all) : j <= MaxPool}}

\* the wallets scored one by one: the pool, and the wallet that asks for every
\* key
ScoredWallets(keyCount_) == Pool(keyCount_) \cup {<<combiLimit(keyCount_) - 1>>}

\* candidate lists: the whole enumeration, and every list of at most MaxCand
\* different wallets of the pool
CandidateLists(keyCount_) ==
    {enumerateStaticWallets(keyCount_)}
        \cup UNION {{ws \in [1..n -> Pool(keyCount_)] :
                        \A i, j \in 1..n : ws[i] = ws[j] => i = j} : n \in 0..MaxCand}

\* permutations of the key positions 1..keyCount, as tuples
Permutations_(keyCount_) ==
    {f \in [1..keyCount_ -> 1..keyCount_] : \A i, j \in 1..keyCount_ : f[i] = f[j] => i = j}

\* inputs of a direct call of computeSuccessProbability: a wallet over
\* DirectKeys keys, and state lists of one length over the same keys
DirectMasks == 0..(2 ^ DirectKeys - 1)

DirectWallets == {<<>>} \cup Pool(DirectKeys)

\* lists of n (owner, adversary) pairs of masks, the pairs in non-decreasing
\* order
DirectStates(n) ==
    {l \in [1..n -> DirectMasks \X DirectMasks] :
        \A i \in 1..(n - 1) :
            \/ l[i][1] < l[i + 1][1]
            \/ l[i][1] = l[i + 1][1] /\ l[i][2] <= l[i + 1][2]}

\* 0.25, 0.1, 0.25, ...
DirectProbabilities(n) ==
    [i \in 1..n |-> IF i % 2 = 1 THEN FDivInt(1, 4) ELSE FDivInt(1, 10)]

(***************************************************************************)
(* State.                                                                  *)
(***************************************************************************)
VARIABLES
    pc,                     \* the operation in progress and its position
    keyCount,               \* argument keyCount
    keyStateProbabilities,  \* argument keyStateProbabilities
    wallets,                \* argument wallets of findOptimalWallet
    states,                 \* the key-state assignments of enumerateStates
    built,                  \* how many times the state space has been built
    step,                   \* arguments of generateKeyFaultProbabilityScenarios;
    include_zero,           \* an absent threshold (None) is the empty sequence,
    min_safe,               \* a given one the sequence of the one value
    max_theft,
    probabilities_list,     \* argument probabilities_list
    deduplicate_by_architecture, \* argument of reportOptimalWalletsForProbabilities
    printed,                \* the lines passed to print_fn, in order
    wallet_optimal_probs,   \* dict of find_optimal_probability_for_each_wallet
    results,                \* list built by reportOptimalWalletsForProbabilities
    heap,                   \* the list and dict objects, by identity
    stack,                  \* the frames of the calls in progress, with their locals
    ownerStates,            \* owner bitmask per state
    advStates,              \* adversary bitmask per state
    state_probabilities,    \* probability per state
    idx,                    \* number of candidates scanned so far
    wallet,                 \* the wallet being scored
    p,                      \* its success probability
    permutation,            \* a permutation of the key positions
    best_wallets,           \* findOptimalWallet's best_wallets
    best_prob,              \* findOptimalWallet's best_prob
    result                  \* the value returned, or the exception raised

scenarioVars == <<step, include_zero, min_safe, max_theft>>

reportVars ==
    <<probabilities_list, deduplicate_by_architecture, printed, wallet_optimal_probs,
      results>>

heapVars == <<heap, stack>>

vars ==
    <<pc, keyCount, keyStateProbabilities, wallets, states, ownerStates, advStates,
      state_probabilities, built, scenarioVars, reportVars, heapVars, idx, wallet, p,
      permutation, best_wallets, best_prob, result>>

Init ==
    /\ pc = "idle"
    /\ keyCount = 0
    /\ keyStateProbabilities = <<>>
    /\ wallets = <<>>
    /\ states = <<>>
    /\ ownerStates = <<>>
    /\ advStates = <<>>
    /\ state_probabilities = <<>>
    /\ built = 0
    /\ step = FZero
    /\ include_zero = FALSE
    /\ min_safe = <<>>
    /\ max_theft = <<>>
    /\ probabilities_list = <<>>
    /\ deduplicate_by_architecture = FALSE
    /\ printed = <<>>
    /\ wallet_optimal_probs = <<>>
    /\ results = <<>>
    /\ heap = <<>>
    /\ stack = <<>>
    /\ idx = 0
    /\ wallet = <<>>
    /\ p = FZero
    /\ permutation = <<>>
    /\ best_wallets = <<>>
    /\ best_prob = FZero
    /\ result = <<>>

\* enumerateStaticWallets(keyCount), deduplicate_by_architecture=False
EnumerateCall ==
    /\ pc = "idle"
    /\ \E k \in 0..MaxKeys :
          /\ keyCount' = k
          /\ result' = enumerateStaticWallets(k)
    /\ pc' = "enum_done"
    /\ UNCHANGED <<keyStateProbabilities, wallets, ownerStates, advStates,
                   states, state_probabilities, built, scenarioVars, reportVars, heapVars, idx, wallet, p, permutation,
                   best_wallets, best_prob>>

\* findOptimalWallet(wallets, keyCount, keyStateProbabilities) is called
FindCall ==
    /\ pc = "idle"
    /\ \E k \in 0..MaxFindKeys, probs \in Profiles :
          \E ws \in CandidateLists(k) :
              /\ keyCount' = k
              /\ keyStateProbabilities' = probs
              /\ wallets' = ws
    /\ pc' = "find_enter"
    /\ UNCHANGED <<ownerStates, advStates, states, state_probabilities, built, scenarioVars, reportVars, heapVars, idx,
                   wallet, p, permutation, best_wallets, best_prob, result>>

\* the state space is computed, and the best-set initialised
FindStates ==
    /\ pc = "find_enter"
    /\ LET r == enumerateStates(keyCount, keyStateProbabilities)
       IN  IF r.ok
           THEN LET oa == ownerAdvKeysFromStates(r.states)
                IN  /\ states' = r.states
                    /\ state_probabilities' = r.probabilities
                    /\ built' = built + 1
                    /\ UNCHANGED <<scenarioVars, reportVars, heapVars>>
                    /\ ownerStates' = oa.ownerStates
                    /\ advStates' = oa.advStates
                    /\ best_wallets' = initialBest.best_wallets
                    /\ best_prob' = initialBest.best_prob
                    /\ idx' = 0
                    /\ pc' = "find_loop"
                    /\ UNCHANGED result
           ELSE /\ pc' = "find_raised"
                /\ result' = r.error
                /\ UNCHANGED <<states, ownerStates, advStates, state_probabilities, built, scenarioVars, reportVars, heapVars,
                               idx, best_wallets, best_prob>>
    /\ UNCHANGED <<keyCount, keyStateProbabilities, wallets, wallet, p, permutation>>

\* faulty variant: the state space is built again for every candidate
FindScan_rebuilds ==
    /\ pc = "find_loop"
    /\ idx < Len(wallets)
    /\ LET r == enumerateStates(keyCount, keyStateProbabilities)
           oa == ownerAdvKeysFromStates(r.states)
           w == wallets[idx + 1]
           pw == computeSuccessProbability(w, oa.ownerStates, oa.advStates,
                                           r.probabilities)
           b == scanStep(best_wallets, best_prob, w, pw)
       IN  /\ states' = r.states
           /\ state_probabilities' = r.probabilities
           /\ built' = built + 1
           /\ UNCHANGED <<scenarioVars, reportVars, heapVars>>
           /\ ownerStates' = oa.ownerStates
           /\ advStates' = oa.advStates
           /\ wallet' = w
           /\ p' = pw
           /\ best_wallets' = b.best_wallets
           /\ best_prob' = b.best_prob
    /\ idx' = idx + 1
    /\ UNCHANGED <<pc, keyCount, keyStateProbabilities, wallets, permutation, result>>

\* one iteration of: for wallet in wallets
FindScan ==
    /\ pc = "find_loop"
    /\ idx < Len(wallets)
    /\ LET w == wallets[idx + 1]
           pw == computeSuccessProbability(w, ownerStates, advStates,
                                           state_probabilities)
           r == scanStep(best_wallets, best_prob, w, pw)
       IN  /\ wallet' = w
           /\ p' = pw
           /\ best_wallets' = r.best_wallets
           /\ best_prob' = r.best_prob
    /\ idx' = idx + 1
    /\ UNCHANGED <<pc, keyCount, keyStateProbabilities, wallets, ownerStates,
                   advStates, states, state_probabilities, built, scenarioVars, reportVars, heapVars, permutation, result>>

\* return best_wallets, best_prob
FindReturn ==
    /\ pc = "find_loop"
    /\ idx = Len(wallets)
    /\ result' = [best_wallets |-> best_wallets, best_prob |-> best_prob]
    /\ pc' = "find_done"
    /\ UNCHANGED <<keyCount, keyStateProbabilities, wallets, ownerStates,
                   advStates, states, state_probabilities, built, scenarioVars, reportVars, heapVars, idx, wallet, p,
                   permutation, best_wallets, best_prob>>

Next == EnumerateCall \/ FindCall \/ FindStates \/ FindScan \/ FindReturn

Spec == Init /\ [][Next]_vars

(***************************************************************************)
(* A direct call of computeSuccessProbability on given lists, as the tests *)
(* make it.                                                                *)
(***************************************************************************)
InitCompute ==
    /\ pc = "compute_call"
    /\ wallet \in DirectWallets
    /\ \E n \in 0..MaxDirect :
          /\ \E l \in DirectStates(n) :
                /\ ownerStates = [i \in 1..n |-> l[i][1]]
                /\ advStates = [i \in 1..n |-> l[i][2]]
          /\ state_probabilities = DirectProbabilities(n)
          /\ built = 0
          /\ step = FZero
          /\ include_zero = FALSE
          /\ min_safe = <<>>
          /\ max_theft = <<>>
          /\ probabilities_list = <<>>
          /\ deduplicate_by_architecture = FALSE
          /\ printed = <<>>
          /\ wallet_optimal_probs = <<>>
          /\ results = <<>>
          /\ heap = <<>>
          /\ stack = <<>>
    /\ keyCount = 0
    /\ keyStateProbabilities = <<>>
    /\ wallets = <<>>
    /\ states = <<>>
    /\ idx = 0
    /\ p = FZero
    /\ permutation = <<>>
    /\ best_wallets = <<>>
    /\ best_prob = FZero
    /\ result = <<>>

ComputeReturn ==
    /\ pc = "compute_call"
    /\ result' = computeSuccessProbability(wallet, ownerStates, advStates,
                                           state_probabilities)
    /\ pc' = "compute_done"
    /\ UNCHANGED <<keyCount, keyStateProbabilities, wallets, ownerStates,
                   advStates, states, state_probabilities, built, scenarioVars, reportVars, heapVars, idx, wallet, p,
                   permutation, best_wallets, best_prob>>

NextCompute == ComputeReturn

SpecCompute == InitCompute /\ [][NextCompute]_vars

(***************************************************************************)
(* A wallet and its image under a permutation of the key positions, both   *)
(* scored over one state space, as the tests score wallets: enumerateStates *)
(* and ownerAdvKeysFromStates once, then computeSuccessProbability.        *)
(***************************************************************************)
InitSymmetry ==
    /\ pc = "sym_enter"
    /\ keyCount \in 1..MaxSymKeys
    /\ keyStateProbabilities \in CompleteProfiles
    /\ wallets = <<>>
    /\ states = <<>>
    /\ ownerStates = <<>>
    /\ advStates = <<>>
    /\ state_probabilities = <<>>
    /\ built = 0
    /\ step = FZero
    /\ include_zero = FALSE
    /\ min_safe = <<>>
    /\ max_theft = <<>>
    /\ probabilities_list = <<>>
    /\ deduplicate_by_architecture = FALSE
    /\ printed = <<>>
    /\ wallet_optimal_probs = <<>>
    /\ results = <<>>
    /\ heap = <<>>
    /\ stack = <<>>
    /\ idx = 0
    /\ wallet = <<>>
    /\ p = FZero
    /\ permutation = <<>>
    /\ best_wallets = <<>>
    /\ best_prob = FZero
    /\ result = <<>>

SymStates ==
    /\ pc = "sym_enter"
    /\ LET r == enumerateStates(keyCount, keyStateProbabilities)
           oa == ownerAdvKeysFromStates(r.states)
       IN  /\ r.ok
           /\ states' = r.states
           /\ state_probabilities' = r.probabilities
           /\ built' = built + 1
           /\ UNCHANGED <<scenarioVars, reportVars, heapVars>>
           /\ ownerStates' = oa.ownerStates
           /\ advStates' = oa.advStates
    /\ pc' = "sym_states"
    /\ UNCHANGED <<keyCount, keyStateProbabilities, wallets, idx, wallet, p,
                   permutation, best_wallets, best_prob, result>>

SymScore ==
    /\ pc = "sym_states"
    /\ \E w \in ScoredWallets(keyCount) :
          /\ wallet' = w
          /\ p' = computeSuccessProbability(w, ownerStates, advStates,
                                            state_probabilities)
    /\ pc' = "sym_scored"
    /\ UNCHANGED <<keyCount, keyStateProbabilities, wallets, ownerStates,
                   advStates, states, state_probabilities, built, scenarioVars, reportVars, heapVars, idx, permutation,
                   best_wallets, best_prob, result>>

SymScorePermuted ==
    /\ pc = "sym_scored"
    /\ \E pi \in Permutations_(keyCount) :
          /\ permutation' = pi
          /\ result' =
                 computeSuccessProbability(
                     [i \in 1..Len(wallet) |-> permuteBits(wallet[i], pi)],
                     ownerStates, advStates, state_probabilities)
    /\ pc' = "sym_done"
    /\ UNCHANGED <<keyCount, keyStateProbabilities, wallets, ownerStates,
                   advStates, states, state_probabilities, built, scenarioVars, reportVars, heapVars, idx, wallet, p,
                   best_wallets, best_prob>>

NextSymmetry == SymStates \/ SymScore \/ SymScorePermuted

SpecSymmetry == InitSymmetry /\ [][NextSymmetry]_vars

(***************************************************************************)
(* Definitions shared by the properties.                                   *)
(***************************************************************************)
\* the success probability of a wallet over the state space of the call
Score(w) ==
    computeSuccessProbability(w, ownerStates, advStates, state_probabilities)

\* no combination at one position is a bitmask subset or superset of (or the
\* same as) the combination at another position
IsAntichainList(w) ==
    \A i, j \in 1..Len(w) :
        i # j => /\ BitAnd(w[i], w[j]) # w[i]
                 /\ BitAnd(w[i], w[j]) # w[j]

\* the non-empty antichains of the masks 1 .. 2^k - 1, as sets
Antichains(k) ==
    {S \in SUBSET (1..(2 ^ k - 1)) :
        /\ S # {}
        /\ \A a, b \in S : a # b => BitAnd(a, b) # a /\ BitAnd(a, b) # b}

\* |x - y| < tolerance, computed as the code and the tests compute it
Within(x, y, tolerance) == FLess(FAbs(FSub(x, y)), tolerance)

CompleteProfile == DOMAIN keyStateProbabilities = KeyStateSet

\* complete, no negative entry, and summing to 1 within 1e-9
ValidProfile ==
    /\ CompleteProfile
    /\ \A k \in KeyStateSet : ~FLess(keyStateProbabilities[k], FZero)
    /\ profileSumsToOne(keyStateProbabilities)

\* the scan of findOptimalWallet over a list of wallets, from a given best-set
RECURSIVE ScanFrom(_, _, _)
ScanFrom(ws, i, best) ==
    IF i > Len(ws) THEN best
    ELSE ScanFrom(ws, i + 1,
                  scanStep(best.best_wallets, best.best_prob, ws[i], Score(ws[i])))

ScanList(ws) == ScanFrom(ws, 1, initialBest)

\* two partial results merged by the rule of the scan: a tie within 1e-12
\* appends, a strictly greater probability replaces
mergeBest(r1, r2) ==
    IF FLess(FAbs(FSub(r2.best_prob, r1.best_prob)), EPS)
    THEN [best_wallets |-> r1.best_wallets \o r2.best_wallets,
          best_prob |-> r1.best_prob]
    ELSE IF FLess(r1.best_prob, r2.best_prob) THEN r2
    ELSE r1

SameResult(r1, r2) ==
    /\ Range(r1.best_wallets) = Range(r2.best_wallets)
    /\ r1.best_prob = r2.best_prob

\* the wallet with permuteBits(., permutation) applied to every combination
applyPermutation(w, pi) ==
    [i \in 1..Len(w) |-> permuteBits(w[i], pi)]

\* the sum of probabilities[i] over the indices of S, in increasing order
RECURSIVE SumOver(_, _)
SumOver(S, probabilities) ==
    IF S = {} THEN FZero
    ELSE LET last == CHOOSE i \in S : \A j \in S : j <= i
         IN  FAdd(SumOver(S \ {last}, probabilities), probabilities[last])

(***************************************************************************)
(* C1: for keyCount >= 1, every wallet returned by enumerateStaticWallets  *)
(* is an antichain: of two different combinations of a wallet, neither is  *)
(* a bitmask subset of the other.                                          *)
(***************************************************************************)
C1_Antichain ==
    (pc = "enum_done" /\ keyCount >= 1) =>
        \A n \in 1..Len(result) : IsAntichainList(result[n])

C1_Witness ==
    /\ pc = "enum_done"
    /\ keyCount >= 1
    /\ \E n \in 1..Len(result) : Len(result[n]) >= 3

(***************************************************************************)
(* C2: for keyCount >= 1, enumerateStaticWallets returns exactly the       *)
(* non-empty antichains of the masks 1 .. 2^keyCount - 1: each of them     *)
(* appears, every wallet returned is one of them and has at least one      *)
(* combination, and no wallet appears twice; keyCount = 1 gives [[1]].     *)
(***************************************************************************)
C2_ExactlyAntichains ==
    (pc = "enum_done" /\ keyCount >= 1) =>
        /\ {Range(result[n]) : n \in 1..Len(result)} = Antichains(keyCount)
        /\ \A n \in 1..Len(result) :
              Len(result[n]) >= 1 /\ IsAntichainList(result[n])
        /\ \A m, n \in 1..Len(result) : m # n => result[m] # result[n]
        /\ Len(result) = Cardinality(Antichains(keyCount))
        /\ (keyCount = 1 => result = << <<1>> >>)

C2_Witness ==
    /\ pc = "enum_done"
    /\ keyCount >= 2
    /\ Len(result) >= 4
    /\ \E n \in 1..Len(result) : Len(result[n]) >= 2

(***************************************************************************)
(* C3: when findOptimalWallet returns, every candidate whose success       *)
(* probability is within 1e-12 of the returned best probability is in the  *)
(* returned list of best wallets.                                          *)
(***************************************************************************)
C3_AllCoOptimalReturned ==
    pc = "find_done" =>
        \A i \in 1..Len(wallets) :
            Within(Score(wallets[i]), result.best_prob, EPS)
                => wallets[i] \in Range(result.best_wallets)

(***************************************************************************)
(* C4: the result of the scan does not depend on the order of processing:  *)
(* every permutation of the candidate list, cut anywhere into two sublists *)
(* that are scanned separately and merged by the same rule, gives the set  *)
(* of best wallets and the best probability that findOptimalWallet         *)
(* returns.                                                                *)
(***************************************************************************)
C4_OrderIndependent ==
    pc = "find_done" =>
        \A f \in Permutations_(Len(wallets)) :
            LET ws == [i \in 1..Len(wallets) |-> wallets[f[i]]]
            IN  \A cut \in 0..Len(ws) :
                    SameResult(mergeBest(ScanList(SubSeq(ws, 1, cut)),
                                         ScanList(SubSeq(ws, cut + 1, Len(ws)))),
                               result)

C6_ReturnedWalletsAreBest ==
    (pc = "find_done" /\ Len(wallets) >= 1 /\ ValidProfile) =>
        /\ Len(result.best_wallets) >= 1
        /\ \A j \in 1..Len(result.best_wallets) :
              Within(result.best_prob, Score(result.best_wallets[j]), TOL)

C6_Witness ==
    /\ pc = "find_done"
    /\ ValidProfile
    /\ Len(result.best_wallets) >= 2
    /\ \E j \in 1..Len(result.best_wallets) :
          Score(result.best_wallets[j]) # result.best_prob

(***************************************************************************)
(* C7: for a valid keyCount and a valid probability profile, a call of     *)
(* findOptimalWallet with an empty candidate list raises no error and      *)
(* returns exactly ([], -1.0).                                             *)
(***************************************************************************)
C7_EmptyListSentinel ==
    (pc \in {"find_raised", "find_done"} /\ wallets = <<>> /\ keyCount >= 1
        /\ ValidProfile) =>
        /\ pc = "find_done"
        /\ result = [best_wallets |-> <<>>, best_prob |-> FFromInt(-1)]

C7_Witness ==
    /\ pc = "find_done"
    /\ wallets = <<>>
    /\ keyCount >= 2
    /\ ValidProfile

(***************************************************************************)
(* C8: computeSuccessProbability returns the sum, taken in floating point  *)
(* in increasing order of the index, of probabilities[i] over the indices  *)
(* i where some combination c of the wallet has c & ownerStates[i] == c    *)
(* and no combination c of the wallet has c & advStates[i] == c.           *)
(***************************************************************************)
C8_SumOverSuccessStates ==
    pc = "compute_done" =>
        result =
            SumOver({i \in 1..Len(state_probabilities) :
                        /\ \E c \in Range(wallet) : BitAnd(c, ownerStates[i]) = c
                        /\ ~\E c \in Range(wallet) : BitAnd(c, advStates[i]) = c},
                    state_probabilities)

\* both states count, and the sum of the two is not a term
C8_Witness ==
    /\ pc = "compute_done"
    /\ Len(state_probabilities) = 2
    /\ result # FZero
    /\ result # state_probabilities[1]
    /\ result # state_probabilities[2]
    /\ \E i \in 1..2 : advStates[i] # 0

(***************************************************************************)
(* C9, as stated: for every wallet w, keyCount k, permutation pi of the    *)
(* key positions and probability profile, the success probability of w     *)
(* over the state space of enumerateStates equals that of the wallet       *)
(* obtained by applying permuteBits(., pi) to every combination of w.      *)
(***************************************************************************)
C9_SymmetryExact == pc = "sym_done" => result = p

(***************************************************************************)
(* C9, amended: the two success probabilities are equal within 1e-9; they  *)
(* are the same sum of products taken in another order, and differ by      *)
(* floating-point rounding.                                                *)
(***************************************************************************)
C9_SymmetryWithinTolerance == pc = "sym_done" => Within(result, p, TOL)

\* the permutation moves the wallet, and neither probability is zero
C9_Witness ==
    /\ pc = "sym_done"
    /\ keyCount >= 2
    /\ Range(applyPermutation(wallet, permutation)) # Range(wallet)
    /\ p # FZero
    /\ result # FZero
    /\ Within(result, p, TOL)

(***************************************************************************)
(* C10: coverage is monotone: for all bitmasks m, m2 with m & m2 == m and  *)
(* every wallet w, isCovered(m, w) implies isCovered(m2, w).               *)
(***************************************************************************)
C10_CoverageMonotone ==
    pc \in {"sym_scored", "sym_done"} =>
        \A m, m2 \in 0..(combiLimit(keyCount) - 1) :
            (BitAnd(m, m2) = m /\ isCovered(m, wallet)) => isCovered(m2, wallet)

\* a mask covered by the second combination of the wallet only, and a strictly
\* larger mask
C10_Witness ==
    /\ pc = "sym_scored"
    /\ Len(wallet) >= 2
    /\ \E m, m2 \in 0..(combiLimit(keyCount) - 1) :
          /\ m # m2
          /\ BitAnd(m, m2) = m
          /\ isCovered(m, wallet)
          /\ ~isCovered(m, SubSeq(wallet, 1, 1))

(***************************************************************************)
(* wallet_enumerations.py: canonical forms and deduplication by            *)
(* architecture.                                                           *)
(***************************************************************************)
\* x put at its place in a sorted sequence
RECURSIVE insertSorted(_, _)
insertSorted(x, seq) ==
    IF seq = <<>> THEN <<x>>
    ELSE IF x <= Head(seq) THEN <<x>> \o seq
    ELSE <<Head(seq)>> \o insertSorted(x, Tail(seq))

\* sorted(...) on integers
RECURSIVE sorted(_)
sorted(seq) ==
    IF seq = <<>> THEN <<>> ELSE insertSorted(Head(seq), sorted(Tail(seq)))

\* a < b on tuples of integers
RECURSIVE tupleLess(_, _)
tupleLess(a, b) ==
    IF b = <<>> THEN FALSE
    ELSE IF a = <<>> THEN TRUE
    ELSE IF Head(a) # Head(b) THEN Head(a) < Head(b)
    ELSE tupleLess(Tail(a), Tail(b))

\* itertools.permutations(items), in the order itertools yields them: by the
\* position of the first element taken, then of the second, and so on
RECURSIVE permutations(_)
RECURSIVE permutationsFrom(_, _)
permutationsFrom(items, i) ==
    IF i > Len(items) THEN <<>>
    ELSE LET rest == SubSeq(items, 1, i - 1) \o SubSeq(items, i + 1, Len(items))
             sub == permutations(rest)
         IN  [j \in 1..Len(sub) |-> <<items[i]>> \o sub[j]]
                 \o permutationsFrom(items, i + 1)

permutations(items) ==
    IF items = <<>> THEN << <<>> >> ELSE permutationsFrom(items, 1)

\* tuple(range(1, keyCount + 1))
indices(keyCount_) == [i \in 1..keyCount_ |-> i]

\* tuple(sorted(permuteBits(c, perm) for c in wallet))
transformed(wallet_, perm) ==
    sorted([i \in 1..Len(wallet_) |-> permuteBits(wallet_[i], perm)])

\* faulty variant: only the first tuple is kept
keepBest_first(best, t) == IF best = <<>> THEN <<t>> ELSE best

\* faulty variant: every tuple replaces the one kept
keepBest_last(best, t) == <<t>>

\* if best is None or transformed < best: best = transformed; None is the
\* empty sequence and a tuple t is <<t>>
keepBest(best, t) == IF best = <<>> \/ tupleLess(t, best[1]) THEN <<t>> ELSE best

RECURSIVE canonicalizeFrom(_, _, _, _)
canonicalizeFrom(wallet_, perms, n, best) ==
    IF n > Len(perms) THEN best
    ELSE canonicalizeFrom(wallet_, perms, n + 1,
                          keepBest(best, transformed(wallet_, perms[n])))

canonicalizeWallet(wallet_, keyCount_) ==
    canonicalizeFrom(wallet_, permutations(indices(keyCount_)), 1, <<>>)[1]

Reverse(seq) == [i \in 1..Len(seq) |-> seq[Len(seq) + 1 - i]]

\* wallets over keyCount keys handed to canonicalizeWallet: the empty wallet,
\* the first MaxCanonPool enumerated ones, and the same with the combinations
\* in reverse order
CanonWallets(keyCount_) ==
    LET all == enumerateStaticWallets(keyCount_)
    IN  {<<>>} \cup UNION {{all[i], Reverse(all[i])} :
                              i \in {j \in 1..Len(all) : j <= MaxCanonPool}}

(***************************************************************************)
(* Calls of canonicalizeWallet: on a wallet, on a permuted image of that   *)
(* wallet, and on the canonical form returned.                             *)
(***************************************************************************)
InitCanonical ==
    /\ pc = "canon_idle"
    /\ keyCount = 0
    /\ keyStateProbabilities = <<>>
    /\ wallets = <<>>
    /\ states = <<>>
    /\ ownerStates = <<>>
    /\ advStates = <<>>
    /\ state_probabilities = <<>>
    /\ built = 0
    /\ step = FZero
    /\ include_zero = FALSE
    /\ min_safe = <<>>
    /\ max_theft = <<>>
    /\ probabilities_list = <<>>
    /\ deduplicate_by_architecture = FALSE
    /\ printed = <<>>
    /\ wallet_optimal_probs = <<>>
    /\ results = <<>>
    /\ heap = <<>>
    /\ stack = <<>>
    /\ idx = 0
    /\ wallet = <<>>
    /\ p = FZero
    /\ permutation = <<>>
    /\ best_wallets = <<>>
    /\ best_prob = FZero
    /\ result = <<>>

CanonicalizeCall ==
    /\ pc = "canon_idle"
    /\ \E k \in 0..MaxCanonKeys :
          \E w \in CanonWallets(k) :
              /\ keyCount' = k
              /\ wallet' = w
              /\ result' = canonicalizeWallet(w, k)
    /\ pc' = "canon_done"
    /\ UNCHANGED <<keyStateProbabilities, wallets, states, ownerStates, advStates,
                   state_probabilities, built, scenarioVars, reportVars, heapVars, idx, p, permutation, best_wallets,
                   best_prob>>

\* the wallet with its key positions permuted is canonicalized
CanonicalizePermutedCall ==
    /\ pc = "canon_done"
    /\ \E pi \in Permutations_(keyCount) :
          LET w == [i \in 1..Len(wallet) |-> permuteBits(wallet[i], pi)]
          IN  /\ permutation' = pi
              /\ wallet' = w
              /\ result' = canonicalizeWallet(w, keyCount)
    /\ pc' = "canon_permuted"
    /\ UNCHANGED <<keyCount, keyStateProbabilities, wallets, states, ownerStates,
                   advStates, state_probabilities, built, scenarioVars, reportVars, heapVars, idx, p, best_wallets, best_prob>>

\* the canonical form returned is canonicalized
CanonicalizeAgainCall ==
    /\ pc = "canon_done"
    /\ wallet' = result
    /\ result' = canonicalizeWallet(result, keyCount)
    /\ pc' = "canon_again"
    /\ UNCHANGED <<keyCount, keyStateProbabilities, wallets, states, ownerStates,
                   advStates, state_probabilities, built, scenarioVars, reportVars, heapVars, idx, p, permutation,
                   best_wallets, best_prob>>

NextCanonical == CanonicalizeCall \/ CanonicalizePermutedCall \/ CanonicalizeAgainCall

SpecCanonical == InitCanonical /\ [][NextCanonical]_vars

\* the wallets a canonical form is compared with: the scored ones, and the
\* same with the combinations in reverse order
ComparedWallets(k) == UNION {{w, Reverse(w)} : w \in ScoredWallets(k)}

\* the sorted tuples of the images of a wallet under the permutations of the
\* key positions
Images(w, k) == {sorted(applyPermutation(w, pi)) : pi \in Permutations_(k)}

(***************************************************************************)
(* C11: canonicalizeWallet(w, k) is the lexicographically smallest of the  *)
(* sorted tuples of w under the k! permutations of the bit positions; two  *)
(* wallets over k keys have the same canonical form if and only if one is  *)
(* an image of the other under a permutation of the key positions (the     *)
(* combinations taken as a sorted tuple); and the canonical form of every  *)
(* permuted image of w is that of w.                                       *)
(***************************************************************************)
C11_CanonicalForm ==
    pc = "canon_done" =>
        /\ result \in Images(wallet, keyCount)
        /\ \A t \in Images(wallet, keyCount) : ~tupleLess(t, result)
        /\ \A v \in ComparedWallets(keyCount) :
              canonicalizeWallet(v, keyCount) = result
                  <=> sorted(v) \in Images(wallet, keyCount)
        /\ \A pi \in Permutations_(keyCount) :
              canonicalizeWallet(applyPermutation(wallet, pi), keyCount) = result

\* a wallet that is not its own canonical form, with another wallet of the
\* same form and one of another form
C11_Witness ==
    /\ pc = "canon_done"
    /\ keyCount >= 3
    /\ Len(wallet) >= 2
    /\ result # sorted(wallet)
    /\ \E v \in ComparedWallets(keyCount) :
          sorted(v) # sorted(wallet) /\ canonicalizeWallet(v, keyCount) = result
    /\ \E v \in ComparedWallets(keyCount) :
          Len(v) >= 2 /\ canonicalizeWallet(v, keyCount) # result

(***************************************************************************)
(* C12: canonical idempotence: canonicalizeWallet applied to the canonical *)
(* form of a wallet returns that canonical form.                           *)
(***************************************************************************)
C12_CanonicalIdempotent == pc = "canon_again" => result = wallet

\* the canonical form is not the wallet the first call was given
C12_Witness ==
    /\ pc = "canon_again"
    /\ keyCount >= 2
    /\ Len(wallet) >= 2
    /\ \E w \in CanonWallets(keyCount) :
          w # wallet /\ sorted(w) # wallet /\ canonicalizeWallet(w, keyCount) = wallet

(***************************************************************************)
(* wallet_enumerations.py: deduplicateWalletsByArchitecture.               *)
(***************************************************************************)
\* faulty variant: the canonical form is not recorded
seenAdd_forgotten(seen, canon) == seen

\* seen.add(canon)
seenAdd(seen, canon) == seen \cup {canon}

\* the loop over wallets, from the n-th wallet on
RECURSIVE deduplicateFrom(_, _, _, _, _)
deduplicateFrom(wallets_, keyCount_, n, seen, unique) ==
    IF n > Len(wallets_) THEN unique
    ELSE LET canon == canonicalizeWallet(wallets_[n], keyCount_)
         IN  IF canon \notin seen
             THEN deduplicateFrom(wallets_, keyCount_, n + 1, seenAdd(seen, canon),
                                  Append(unique, wallets_[n]))
             ELSE deduplicateFrom(wallets_, keyCount_, n + 1, seen, unique)

deduplicateWalletsByArchitecture(wallets_, keyCount_) ==
    deduplicateFrom(wallets_, keyCount_, 1, {}, <<>>)

\* faulty variant: the flag is ignored
enumerateStaticWalletsDeduplicated_ignored(keyCount_) ==
    enumerateStaticSubWallets(<<>>, 0, keyCount_)

\* enumerateStaticWallets(keyCount, deduplicate_by_architecture=True)
enumerateStaticWalletsDeduplicated(keyCount_) ==
    deduplicateWalletsByArchitecture(enumerateStaticSubWallets(<<>>, 0, keyCount_),
                                     keyCount_)

\* lists of at most MaxCand wallets, repetitions included
DedupLists(keyCount_) ==
    UNION {[1..n -> ComparedWallets(keyCount_)] : n \in 0..MaxCand}

InitDeduplicate ==
    /\ pc = "dedup_idle"
    /\ keyCount = 0
    /\ keyStateProbabilities = <<>>
    /\ wallets = <<>>
    /\ states = <<>>
    /\ ownerStates = <<>>
    /\ advStates = <<>>
    /\ state_probabilities = <<>>
    /\ built = 0
    /\ step = FZero
    /\ include_zero = FALSE
    /\ min_safe = <<>>
    /\ max_theft = <<>>
    /\ probabilities_list = <<>>
    /\ deduplicate_by_architecture = FALSE
    /\ printed = <<>>
    /\ wallet_optimal_probs = <<>>
    /\ results = <<>>
    /\ heap = <<>>
    /\ stack = <<>>
    /\ idx = 0
    /\ wallet = <<>>
    /\ p = FZero
    /\ permutation = <<>>
    /\ best_wallets = <<>>
    /\ best_prob = FZero
    /\ result = <<>>

\* deduplicateWalletsByArchitecture(wallets, keyCount)
DeduplicateCall ==
    /\ pc = "dedup_idle"
    /\ \E k \in 0..MaxDedupKeys :
          \E ws \in DedupLists(k) :
              /\ keyCount' = k
              /\ wallets' = ws
              /\ result' = deduplicateWalletsByArchitecture(ws, k)
    /\ pc' = "dedup_done"
    /\ UNCHANGED <<keyStateProbabilities, states, ownerStates, advStates,
                   state_probabilities, built, scenarioVars, reportVars, heapVars, idx, wallet, p, permutation, best_wallets,
                   best_prob>>

\* enumerateStaticWallets(keyCount, deduplicate_by_architecture=True)
EnumerateDeduplicatedCall ==
    /\ pc = "dedup_idle"
    /\ \E k \in 0..MaxKeys :
          /\ keyCount' = k
          /\ result' = enumerateStaticWalletsDeduplicated(k)
    /\ pc' = "enum_dedup_done"
    /\ UNCHANGED <<keyStateProbabilities, wallets, states, ownerStates, advStates,
                   state_probabilities, built, scenarioVars, reportVars, heapVars, idx, wallet, p, permutation, best_wallets,
                   best_prob>>

NextDeduplicate == DeduplicateCall \/ EnumerateDeduplicatedCall

SpecDeduplicate == InitDeduplicate /\ [][NextDeduplicate]_vars

\* the canonical forms of the wallets of a list, position by position
Forms(ws, k) == [i \in 1..Len(ws) |-> canonicalizeWallet(ws[i], k)]

\* the positions whose canonical form no earlier position has
FirstOfForm(forms) ==
    {i \in 1..Len(forms) : \A j \in 1..(i - 1) : forms[j] # forms[i]}

\* the wallets at the positions of S among the first n, in the order of the list
RECURSIVE SubList(_, _, _)
SubList(ws, S, n) ==
    IF n = 0 THEN <<>>
    ELSE SubList(ws, S, n - 1) \o (IF n \in S THEN <<ws[n]>> ELSE <<>>)

(***************************************************************************)
(* C13: deduplicateWalletsByArchitecture returns the wallets of the input, *)
(* in input order, that are the first of their canonical form: no two      *)
(* retained wallets share a canonical form, the output is no longer than   *)
(* the input, and every discarded wallet has the canonical form of a       *)
(* retained wallet that precedes it in the input.                          *)
(***************************************************************************)
C13_KeepsFirstOfEachForm ==
    pc = "dedup_done" =>
        LET forms == Forms(wallets, keyCount)
            retained == Forms(result, keyCount)
            kept == FirstOfForm(forms)
        IN  /\ Len(forms) = Len(wallets)
            /\ Len(retained) = Len(result)
            /\ result = SubList(wallets, kept, Len(wallets))
            /\ Len(result) <= Len(wallets)
            /\ \A m, n \in 1..Len(result) : m # n => retained[m] # retained[n]
            /\ \A i \in (1..Len(wallets)) \ kept :
                  \E j \in kept : j < i /\ forms[j] = forms[i]

\* the second of three wallets is discarded, and it is not the wallet before it
C13_Witness ==
    /\ pc = "dedup_done"
    /\ keyCount >= 2
    /\ Len(wallets) = 3
    /\ Len(result) = 2
    /\ wallets[2] # wallets[1]
    /\ result = <<wallets[1], wallets[3]>>

(***************************************************************************)
(* C14: enumerateStaticWallets(2) without deduplication returns exactly    *)
(* the four wallets [1], [1,2], [2], [3], in that order.                   *)
(***************************************************************************)
C14_TwoKeysFourWallets ==
    (pc = "enum_done" /\ keyCount = 2) =>
        result = << <<1>>, <<1, 2>>, <<2>>, <<3>> >>

C14_Witness ==
    /\ pc = "enum_done"
    /\ keyCount = 2
    /\ Len(result) = 4

(***************************************************************************)
(* C15: enumerateStaticWallets(2, deduplicate_by_architecture=True)        *)
(* returns exactly the three wallets [1], [1,2] and [3]; [2] is discarded  *)
(* because it has the canonical form of [1].                               *)
(***************************************************************************)
C15_TwoKeysThreeArchitectures ==
    (pc = "enum_dedup_done" /\ keyCount = 2) =>
        /\ result = << <<1>>, <<1, 2>>, <<3>> >>
        /\ canonicalizeWallet(<<2>>, 2) = canonicalizeWallet(<<1>>, 2)

C15_Witness ==
    /\ pc = "enum_dedup_done"
    /\ keyCount = 2
    /\ Len(result) = 3
    /\ <<2>> \notin Range(result)


(***************************************************************************)
(* enumerateStates and ownerAdvKeysFromStates called directly.             *)
(***************************************************************************)
\* the profiles whose four entries are multiples of 1 / steps and add up to
\* steps / steps
GridProfiles(steps) ==
    {Profile(FDivInt(a, steps), FDivInt(b, steps),
             FDivInt(c, steps), FDivInt(steps - a - b - c, steps)) :
        <<a, b, c>> \in {t \in (0..steps) \X (0..steps) \X (0..steps) :
                            t[1] + t[2] + t[3] <= steps}}

\* a profile without the entries of some key states
Restrict(probs, present) == [keyState \in present |-> probs[keyState]]

LackingProfiles ==
    {Restrict(ProfileTests, present) : present \in (SUBSET KeyStateSet) \ {KeyStateSet}}

StateProfiles == CompleteProfiles \cup GridProfiles(GridSteps) \cup LackingProfiles

InitStates ==
    /\ pc = "states_idle"
    /\ keyCount = 0
    /\ keyStateProbabilities = <<>>
    /\ wallets = <<>>
    /\ states = <<>>
    /\ ownerStates = <<>>
    /\ advStates = <<>>
    /\ state_probabilities = <<>>
    /\ built = 0
    /\ step = FZero
    /\ include_zero = FALSE
    /\ min_safe = <<>>
    /\ max_theft = <<>>
    /\ probabilities_list = <<>>
    /\ deduplicate_by_architecture = FALSE
    /\ printed = <<>>
    /\ wallet_optimal_probs = <<>>
    /\ results = <<>>
    /\ heap = <<>>
    /\ stack = <<>>
    /\ idx = 0
    /\ wallet = <<>>
    /\ p = FZero
    /\ permutation = <<>>
    /\ best_wallets = <<>>
    /\ best_prob = FZero
    /\ result = <<>>

\* states, probabilities = enumerateStates(keyCount, keyStateProbabilities)
StatesCall ==
    /\ pc = "states_idle"
    /\ \E k \in (-1)..MaxStateKeys :
          \E probs \in StateProfiles :
              /\ keyCount' = k
              /\ keyStateProbabilities' = probs
              /\ LET r == enumerateStates(k, probs)
                 IN  IF r.ok
                     THEN /\ states' = r.states
                          /\ state_probabilities' = r.probabilities
                          /\ built' = built + 1
                          /\ UNCHANGED <<scenarioVars, reportVars, heapVars>>
                          /\ pc' = "states_done"
                          /\ UNCHANGED result
                     ELSE /\ result' = r.error
                          /\ pc' = "states_raised"
                          /\ UNCHANGED <<states, state_probabilities, built, scenarioVars, reportVars, heapVars>>
    /\ UNCHANGED <<wallets, ownerStates, advStates, idx, wallet, p, permutation,
                   best_wallets, best_prob>>

\* ownerStates, advStates = ownerAdvKeysFromStates(states)
OwnerAdvCall ==
    /\ pc = "states_done"
    /\ LET r == ownerAdvKeysFromStates(states)
       IN  /\ ownerStates' = r.ownerStates
           /\ advStates' = r.advStates
    /\ pc' = "owneradv_done"
    /\ UNCHANGED <<keyCount, keyStateProbabilities, wallets, states,
                   state_probabilities, built, scenarioVars, reportVars, heapVars, idx, wallet, p, permutation,
                   best_wallets, best_prob, result>>

NextStates == StatesCall \/ OwnerAdvCall

SpecStates == InitStates /\ [][NextStates]_vars

\* the product of the profile's entries over the positions i..Len(state) of an
\* assignment, the first position being the outermost factor
RECURSIVE ProductOver(_, _, _)
ProductOver(probs, state, i) ==
    IF i = Len(state) THEN probs[state[i]]
    ELSE FMul(probs[state[i]], ProductOver(probs, state, i + 1))

\* probabilities[lo] + ... + probabilities[hi] added to a running total from
\* left to right, the range being halved to keep the evaluation shallow
RECURSIVE SumRange(_, _, _, _)
SumRange(probabilities, lo, hi, total) ==
    IF lo > hi THEN total
    ELSE IF lo = hi THEN FAdd(total, probabilities[lo])
    ELSE LET mid == (lo + hi) \div 2
             first == SumRange(probabilities, lo, mid, total)
         IN  IF first.s \in {0, 1}
             THEN SumRange(probabilities, mid + 1, hi, first)
             ELSE first

One == FFromInt(1)

\* no negative entry, and the four entries add up to 1 (up to the rounding
\* of the three additions)
SumsToOne ==
    /\ CompleteProfile
    /\ \A k \in KeyStateSet : ~FLess(keyStateProbabilities[k], FZero)
    /\ Within(profileTotal(keyStateProbabilities), One, EPS)

\* bit i of a mask, i counted from 0
Bit(mask, i) == (mask \div (2 ^ i)) % 2

(***************************************************************************)
(* C16: a successful enumerateStates(keyCount, profile) returns two lists  *)
(* of 4^keyCount entries each; every assignment has keyCount key states,   *)
(* every one of the 4^keyCount assignments occurs exactly once, and        *)
(* probabilities[i] is the product of the profile's entries of the key     *)
(* states of states[i].                                                    *)
(***************************************************************************)
C16_AllAssignmentsOnce ==
    pc = "states_done" =>
        /\ Len(states) = 4 ^ keyCount
        /\ Len(state_probabilities) = 4 ^ keyCount
        /\ \A i \in 1..Len(states) : Len(states[i]) = keyCount
        /\ {states[i] : i \in 1..Len(states)} = [1..keyCount -> KeyStateSet]
        /\ \A i, j \in 1..Len(states) : i # j => states[i] # states[j]
        /\ \A i \in 1..Len(states) :
              state_probabilities[i] = ProductOver(keyStateProbabilities, states[i], 1)

C16_Witness ==
    /\ pc = "states_done"
    /\ keyCount = 3
    /\ Len(states) = 64
    /\ \E i \in 1..Len(states) :
          /\ states[i] = <<LEAKED, SAFE, STOLEN>>
          /\ state_probabilities[i] # FZero
          /\ state_probabilities[i] # keyStateProbabilities[LEAKED]

(***************************************************************************)
(* C17: for every profile without a negative entry whose four entries sum  *)
(* to 1, and every keyCount >= 1, the probabilities returned by            *)
(* enumerateStates sum to 1 within 1e-9.                                   *)
(***************************************************************************)
C17_MassConserved ==
    (pc = "states_done" /\ keyCount >= 1 /\ SumsToOne) =>
        Within(SumRange(state_probabilities, 1, Len(state_probabilities), FZero),
               One, TOL)

C17_Witness ==
    /\ pc = "states_done"
    /\ keyCount = 3
    /\ SumsToOne
    /\ \A k \in KeyStateSet : keyStateProbabilities[k] # FZero
    /\ SumRange(state_probabilities, 1, Len(state_probabilities), FZero) # One

(***************************************************************************)
(* C18: ownerAdvKeysFromStates returns two lists aligned with the states;  *)
(* bit i of the owner's mask is set exactly when key i is SAFE or LEAKED,  *)
(* bit i of the adversary's mask exactly when key i is LEAKED or STOLEN    *)
(* (SAFE is (1, 0), LOST (0, 0), LEAKED (1, 1), STOLEN (0, 1)), and no     *)
(* other bit is set.                                                       *)
(***************************************************************************)
C18_OwnerAdvBits ==
    pc = "owneradv_done" =>
        /\ Len(ownerStates) = Len(states)
        /\ Len(advStates) = Len(states)
        /\ \A n \in 1..Len(states) :
              /\ ownerStates[n] \in 0..(2 ^ keyCount - 1)
              /\ advStates[n] \in 0..(2 ^ keyCount - 1)
              /\ \A i \in 1..keyCount :
                    /\ Bit(ownerStates[n], i - 1) = 1
                          <=> states[n][i] \in {SAFE, LEAKED}
                    /\ Bit(advStates[n], i - 1) = 1
                          <=> states[n][i] \in {LEAKED, STOLEN}

C18_Witness ==
    /\ pc = "owneradv_done"
    /\ keyCount = 3
    /\ \E n \in 1..Len(states) :
          /\ states[n] = <<SAFE, STOLEN, LEAKED>>
          /\ ownerStates[n] = 5
          /\ advStates[n] = 6

(***************************************************************************)
(* C19: enumerateStates raises, and returns neither states nor             *)
(* probabilities, when keyCount <= 0, and when the profile lacks the entry *)
(* of a key state, for every keyCount >= 1, keyCount = 1 included.         *)
(***************************************************************************)
C19_InvalidConfigurationRaises ==
    (pc # "states_idle" /\ (keyCount <= 0 \/ ~CompleteProfile)) =>
        /\ pc = "states_raised"
        /\ result \in {"Exception", "KeyError", "AssertionError"}
        /\ states = <<>>
        /\ state_probabilities = <<>>

C19_Witness ==
    /\ pc = "states_raised"
    /\ keyCount = 1
    /\ DOMAIN keyStateProbabilities = KeyStateSet \ {STOLEN}
    /\ result = "KeyError"

\* 0 <= x <= 1
InUnit(x) == ~FLess(x, FZero) /\ ~FLess(One, x)

(***************************************************************************)
(* C20: for every wallet, every keyCount >= 1 and every profile without a  *)
(* negative entry that sums to 1, the success probability of the wallet    *)
(* over the state space of enumerateStates lies between 0 and 1 inclusive, *)
(* and so does the best probability findOptimalWallet returns for a        *)
(* candidate list made of that wallet.                                     *)
(***************************************************************************)
C20_ProbabilityInUnitInterval ==
    (pc \in {"sym_scored", "sym_done"} /\ keyCount >= 1 /\ SumsToOne) =>
        /\ InUnit(p)
        /\ InUnit(ScanList(<<wallet>>).best_prob)

\* the lists of the state space
stateSpace == <<states, state_probabilities, ownerStates, advStates>>

(***************************************************************************)
(* C21: within one call of findOptimalWallet the state space               *)
(* (enumerateStates, then ownerAdvKeysFromStates) is built exactly once,   *)
(* before the first candidate is scored; while the candidates are scored   *)
(* the lists do not change, and every candidate is scored on them,         *)
(* however many candidates there are.                                      *)
(***************************************************************************)
C21_StateSpaceBuiltOnce ==
    /\ [](pc \in {"idle", "find_enter"} => built = 0 /\ idx = 0)
    /\ [](pc \in {"find_loop", "find_done"} => built = 1)
    /\ [][pc = "find_loop" =>
             /\ UNCHANGED <<stateSpace, built, scenarioVars, reportVars, heapVars>>
             /\ idx' = idx + 1 =>
                   p' = computeSuccessProbability(wallets[idx'], ownerStates,
                                                  advStates, state_probabilities)]_vars

C21_Witness ==
    /\ pc = "find_done"
    /\ Len(wallets) >= 3
    /\ idx = Len(wallets)
    /\ built = 1
    /\ Len(state_probabilities) = 16

(***************************************************************************)
(* C22: for keyCount = 1 the success probability of the wallet [1] is the  *)
(* SAFE probability of the profile (0.8 for the profile 0.8, 0.1, 0.05,    *)
(* 0.05), and the SAFE state is the only state in which the owner is       *)
(* covered and the adversary is not.                                       *)
(***************************************************************************)
C22_OneKeySafeProbability ==
    (pc \in {"sym_scored", "sym_done"} /\ keyCount = 1 /\ wallet = <<1>>) =>
        /\ p = keyStateProbabilities[SAFE]
        /\ keyStateProbabilities = ProfileTests => p = FDivInt(8, 10)
        /\ \A i \in 1..Len(states) :
              (isCovered(ownerStates[i], wallet) /\ ~isCovered(advStates[i], wallet))
                  <=> states[i] = <<SAFE>>

C22_Witness ==
    /\ pc = "sym_scored"
    /\ keyCount = 1
    /\ wallet = <<1>>
    /\ keyStateProbabilities = ProfileTests
    /\ p = FDivInt(8, 10)
    /\ Len(states) = 4

(***************************************************************************)
(* generateKeyFaultProbabilityScenarios.                                   *)
(***************************************************************************)
\* faulty variant: the LEAKED count is not subtracted
stolenCount_without_leaked(n, a, b, c) == n - (a + b)

\* d = n - (a + b + c)
stolenCount(n, a, b, c) == n - (a + b + c)

\* min_a = int(math.ceil(min_safe * n - 1e-12)), 0 without a threshold
minSafeCount(min_safe_, n) ==
    IF min_safe_ = <<>> THEN 0
    ELSE FCeil(FSub(FMul(min_safe_[1], FFromInt(n)), EPS))

\* max_d = int(math.floor(max_theft * n + 1e-12)), n without a threshold
maxTheftCount(max_theft_, n) ==
    IF max_theft_ = <<>> THEN n
    ELSE FFloor(FAdd(FMul(max_theft_[1], FFromInt(n)), EPS))

\* the dict appended for the counts a, b, c, d
scenario(n, a, b, c, d) ==
    Profile(FDivInt(a, n), FDivInt(b, n), FDivInt(c, n), FDivInt(d, n))

\* the two continue statements of the loop body
skipped(n, a, b, c, d, max_d, include_zero_) ==
    \/ d > max_d
    \/ /\ ~include_zero_
       /\ \/ FDivInt(a, n) = FZero
          \/ FDivInt(b, n) = FZero
          \/ FDivInt(c, n) = FZero
          \/ FDivInt(d, n) = FZero

\* for c in range(n - a - b + 1), from c on
RECURSIVE leakedLoop(_, _, _, _, _, _)
leakedLoop(n, a, b, c, max_d, include_zero_) ==
    IF c > n - a - b THEN <<>>
    ELSE LET d == stolenCount(n, a, b, c)
         IN  (IF skipped(n, a, b, c, d, max_d, include_zero_) THEN <<>>
              ELSE <<scenario(n, a, b, c, d)>>)
             \o leakedLoop(n, a, b, c + 1, max_d, include_zero_)

\* for b in range(n - a + 1), from b on
RECURSIVE lostLoop(_, _, _, _, _)
lostLoop(n, a, b, max_d, include_zero_) ==
    IF b > n - a THEN <<>>
    ELSE leakedLoop(n, a, b, 0, max_d, include_zero_)
         \o lostLoop(n, a, b + 1, max_d, include_zero_)

\* for a in range(min_a, n + 1), from a on
RECURSIVE safeLoop(_, _, _, _)
safeLoop(n, a, max_d, include_zero_) ==
    IF a > n THEN <<>>
    ELSE lostLoop(n, a, 0, max_d, include_zero_)
         \o safeLoop(n, a + 1, max_d, include_zero_)

outOfUnit(threshold) ==
    threshold # <<>> /\ (FLess(threshold[1], FZero) \/ FLess(One, threshold[1]))

\* n = int(round(1.0 / step))
gridSize(step_) == FRound(FDiv(One, step_))

\* the list of scenarios, or the exception raised
generateKeyFaultProbabilityScenarios(step_, include_zero_, min_safe_, max_theft_) ==
    IF ~FLess(FZero, step_) \/ FLess(One, step_) THEN Raised("ValueError")
    ELSE IF outOfUnit(min_safe_) THEN Raised("ValueError")
    ELSE IF outOfUnit(max_theft_) THEN Raised("ValueError")
    ELSE LET n_float == FDiv(One, step_)
             n == gridSize(step_)
         IN  IF FLess(TOL, FAbs(FSub(FFromInt(n), n_float)))
             THEN Raised("ValueError")
             ELSE LET min_a == minSafeCount(min_safe_, n)
                      max_d == maxTheftCount(max_theft_, n)
                  IN  [ok |-> TRUE,
                       scenarios |->
                           IF min_a > n \/ max_d < 0 THEN <<>>
                           ELSE safeLoop(n, min_a, max_d, include_zero_)]

\* grid sizes of the steps 1 / n given to the generator
MaxGrid == 4

\* 0.3 and 0.03 do not divide 1; 0.0, 1.5 and -0.5 are out of range;
\* 0.3333333333 is within 1e-9 of a divisor
OtherSteps ==
    {[s |-> 0, m |-> <<13107, 26214, 19660, 153>>, e |-> -54],
     [s |-> 0, m |-> <<9175, 31457, 23592, 30>>, e |-> -55],
     FZero,
     [s |-> 0, m |-> <<3>>, e |-> -1],
     [s |-> 1, m |-> <<1>>, e |-> -1],
     [s |-> 0, m |-> <<11189, 10904, 21845, 170>>, e |-> -54]}

Steps == {FDivInt(1, n) : n \in 1..MaxGrid} \cup OtherSteps

Half == FDivInt(1, 2)

\* 0.5000000000000001 and 0.49999999999999994, the neighbours of 0.5
HalfNext == [s |-> 0, m |-> <<1, 0, 0, 128>>, e |-> -53]
HalfPrev == [s |-> 0, m |-> <<32767, 32767, 32767, 255>>, e |-> -54]

\* None, 0.0, 0.5, 0.5000000000000001, 0.3, 1.0, 1.5, -0.5
MinSafeInputs ==
    {<<>>, <<FZero>>, <<Half>>, <<HalfNext>>, <<FDivInt(3, 10)>>, <<One>>,
     <<FDivInt(3, 2)>>, <<FNeg(Half)>>}

\* None, 0.0, 0.5, 0.49999999999999994, 0.3, 1.0, 1.5
MaxTheftInputs ==
    {<<>>, <<FZero>>, <<Half>>, <<HalfPrev>>, <<FDivInt(3, 10)>>, <<One>>,
     <<FDivInt(3, 2)>>}

InitScenarios ==
    /\ pc = "scenarios_idle"
    /\ keyCount = 0
    /\ keyStateProbabilities = <<>>
    /\ wallets = <<>>
    /\ states = <<>>
    /\ ownerStates = <<>>
    /\ advStates = <<>>
    /\ state_probabilities = <<>>
    /\ built = 0
    /\ step = FZero
    /\ include_zero = FALSE
    /\ min_safe = <<>>
    /\ max_theft = <<>>
    /\ probabilities_list = <<>>
    /\ deduplicate_by_architecture = FALSE
    /\ printed = <<>>
    /\ wallet_optimal_probs = <<>>
    /\ results = <<>>
    /\ heap = <<>>
    /\ stack = <<>>
    /\ idx = 0
    /\ wallet = <<>>
    /\ p = FZero
    /\ permutation = <<>>
    /\ best_wallets = <<>>
    /\ best_prob = FZero
    /\ result = <<>>

\* generateKeyFaultProbabilityScenarios(step, include_zero, min_safe, max_theft)
ScenariosCall ==
    /\ pc = "scenarios_idle"
    /\ \E st \in Steps, iz \in BOOLEAN, ms \in MinSafeInputs, mt \in MaxTheftInputs :
          /\ step' = st
          /\ include_zero' = iz
          /\ min_safe' = ms
          /\ max_theft' = mt
          /\ LET r == generateKeyFaultProbabilityScenarios(st, iz, ms, mt)
             IN  IF r.ok
                 THEN /\ result' = r.scenarios
                      /\ pc' = "scenarios_done"
                 ELSE /\ result' = r.error
                      /\ pc' = "scenarios_raised"
    /\ UNCHANGED <<keyCount, keyStateProbabilities, wallets, states, ownerStates,
                   advStates, state_probabilities, built, reportVars, heapVars, idx, wallet,
                   p, permutation, best_wallets, best_prob>>

NextScenarios == ScenariosCall

SpecScenarios == InitScenarios /\ [][NextScenarios]_vars

\* the points (a, b, c, d) of the integer grid of size n
GridPoints(n) ==
    {t \in (0..n) \X (0..n) \X (0..n) \X (0..n) : t[1] + t[2] + t[3] + t[4] = n}

PointScenario(n, t) == scenario(n, t[1], t[2], t[3], t[4])

(***************************************************************************)
(* C23: for an accepted step, with n = round(1 / step), every scenario     *)
(* returned by generateKeyFaultProbabilityScenarios is the point           *)
(* (a/n, b/n, c/n, d/n) of non-negative integers a + b + c + d = n; it has *)
(* the four entries SAFE, LOST, LEAKED, STOLEN, they sum to 1 (within 1e-9 *)
(* as floats), and no point is returned twice.                             *)
(***************************************************************************)
C23_ScenariosOnGrid ==
    pc = "scenarios_done" =>
        LET n == gridSize(step)
        IN  /\ \A i \in 1..Len(result) :
                  /\ \E t \in GridPoints(n) : result[i] = PointScenario(n, t)
                  /\ DOMAIN result[i] = KeyStateSet
                  /\ Within(profileTotal(result[i]), One, TOL)
            /\ \A i, j \in 1..Len(result) : i # j => result[i] # result[j]

C23_Witness ==
    /\ pc = "scenarios_done"
    /\ gridSize(step) = 4
    /\ include_zero
    /\ min_safe = <<>>
    /\ max_theft = <<>>
    /\ Len(result) = 35

\* the filters requested, on a scenario
satisfiesFilters(sc) ==
    /\ min_safe # <<>> => ~FLess(sc[SAFE], min_safe[1])
    /\ max_theft # <<>> => ~FLess(max_theft[1], sc[STOLEN])
    /\ ~include_zero => \A k \in KeyStateSet : sc[k] # FZero

(***************************************************************************)
(* C24: every scenario returned by generateKeyFaultProbabilityScenarios    *)
(* satisfies the requested filters (SAFE >= min_safe when min_safe is      *)
(* given, STOLEN <= max_theft when max_theft is given, no entry equal to 0 *)
(* when include_zero is False), and every point of the grid that satisfies *)
(* the filters is returned.                                                *)
(***************************************************************************)
C24_FiltersSoundAndComplete ==
    pc = "scenarios_done" =>
        LET n == gridSize(step)
        IN  /\ \A i \in 1..Len(result) : satisfiesFilters(result[i])
            /\ \A t \in GridPoints(n) :
                  satisfiesFilters(PointScenario(n, t))
                      => PointScenario(n, t) \in Range(result)

(***************************************************************************)
(* findOptimalWallet as one call, and reportOptimalWalletsForProbabilities.*)
(***************************************************************************)
\* the loop of findOptimalWallet from candidate i on, on a given state space;
\* each iteration's probability and running best are computed once, as values
RECURSIVE findScanFrom(_, _, _, _, _)
findScanFrom(wallets_, i, best, oa, probabilities) ==
    IF i > Len(wallets_) THEN best
    ELSE CHOOSE out \in
             {findScanFrom(wallets_, i + 1, next, oa, probabilities) :
                 next \in {scanStep(best.best_wallets, best.best_prob, wallets_[i], pw) :
                              pw \in {computeSuccessProbability(wallets_[i],
                                          oa.ownerStates, oa.advStates,
                                          probabilities)}}} : TRUE

\* (best_wallets, best_prob), or the exception raised by enumerateStates
findOptimalWallet(wallets_, keyCount_, probs) ==
    CHOOSE out \in
        {IF ~r.ok THEN r
         ELSE CHOOSE found \in
                  {[ok |-> TRUE, best_wallets |-> best.best_wallets,
                    best_prob |-> best.best_prob] :
                      best \in {findScanFrom(ws, 1, initialBest, oa, r.probabilities) :
                                   oa \in {ownerAdvKeysFromStates(r.states)}}} : TRUE :
            r \in {enumerateStates(keyCount_, probs)}, ws \in {wallets_}} : TRUE

\* key counts of reportOptimalWalletsForProbabilities
MaxReportKeys == 2

\* scenarios per list
MaxScenarios == 2

\* 0.5, 0.3, 0.1, 0.2 sums to 1.1
ProfileExcess ==
    Profile(FDivInt(1, 2), FDivInt(3, 10), FDivInt(1, 10), FDivInt(2, 10))

\* 0.8, 0.1, 0.05 without an entry for STOLEN: sums to 0.95
ProfileShort == Restrict(ProfileTests, {SAFE, LOST, LEAKED})

\* two valid profiles, a profile that sums to 1.1, one that sums to 0.95 by a
\* missing entry, and one that sums to 1 without its entry for STOLEN
ReportProfiles ==
    {ProfileTests, ProfileGrid, ProfileExcess, ProfileShort, ProfileIncomplete}

ScenarioLists == UNION {[1..n -> ReportProfiles] : n \in 0..MaxScenarios}

InitReport ==
    /\ pc = "report_idle"
    /\ keyCount = 0
    /\ keyStateProbabilities = <<>>
    /\ wallets = <<>>
    /\ states = <<>>
    /\ ownerStates = <<>>
    /\ advStates = <<>>
    /\ state_probabilities = <<>>
    /\ built = 0
    /\ step = FZero
    /\ include_zero = FALSE
    /\ min_safe = <<>>
    /\ max_theft = <<>>
    /\ probabilities_list = <<>>
    /\ deduplicate_by_architecture = FALSE
    /\ printed = <<>>
    /\ wallet_optimal_probs = <<>>
    /\ results = <<>>
    /\ heap = <<>>
    /\ stack = <<>>
    /\ idx = 0
    /\ wallet = <<>>
    /\ p = FZero
    /\ permutation = <<>>
    /\ best_wallets = <<>>
    /\ best_prob = FZero
    /\ result = <<>>

\* reportOptimalWalletsForProbabilities is called; the wallets are generated
\* once, before the loop
ReportCall ==
    /\ pc = "report_idle"
    /\ \E k \in 0..MaxReportKeys, flag \in BOOLEAN, l \in ScenarioLists :
          /\ keyCount' = k
          /\ deduplicate_by_architecture' = flag
          /\ probabilities_list' = l
          /\ wallets' = IF flag THEN enumerateStaticWalletsDeduplicated(k)
                        ELSE enumerateStaticWallets(k)
    /\ results' = <<>>
    /\ idx' = 0
    /\ pc' = "report_loop"
    /\ UNCHANGED <<heapVars, keyStateProbabilities, states, ownerStates, advStates,
                   state_probabilities, built, scenarioVars, printed,
                   wallet_optimal_probs, wallet, p, permutation, best_wallets,
                   best_prob, result>>

\* the validation of the scenario at index idx
ReportValidate ==
    /\ pc = "report_loop"
    /\ idx < Len(probabilities_list)
    /\ keyStateProbabilities' = probabilities_list[idx + 1]
    /\ IF profileSumsToOne(probabilities_list[idx + 1])
       THEN /\ pc' = "report_find"
            /\ UNCHANGED result
       ELSE /\ pc' = "report_raised"
            /\ result' = "ValueError"
    /\ UNCHANGED <<keyCount, wallets, states, ownerStates, advStates,
                   state_probabilities, built, scenarioVars, reportVars, heapVars, idx,
                   wallet, p, permutation, best_wallets, best_prob>>

\* findOptimalWallet on the scenario, the line printed and the tuple appended
ReportFind ==
    /\ pc = "report_find"
    /\ LET r == findOptimalWallet(wallets, keyCount, keyStateProbabilities)
       IN  IF r.ok
           THEN /\ best_wallets' = r.best_wallets
                /\ best_prob' = r.best_prob
                /\ built' = built + 1
                /\ printed' = Append(printed,
                                     [idx |-> idx, best_p |-> r.best_prob,
                                      wallets |-> r.best_wallets,
                                      probs |-> keyStateProbabilities])
                /\ results' = Append(results,
                                     <<r.best_wallets, r.best_prob,
                                       keyStateProbabilities>>)
                /\ idx' = idx + 1
                /\ pc' = "report_loop"
                /\ UNCHANGED result
           ELSE /\ pc' = "report_raised"
                /\ result' = r.error
                /\ UNCHANGED <<best_wallets, best_prob, built, printed, results, idx>>
    /\ UNCHANGED <<heapVars, keyCount, keyStateProbabilities, wallets, states, ownerStates,
                   advStates, state_probabilities, scenarioVars,
                   probabilities_list, deduplicate_by_architecture,
                   wallet_optimal_probs, wallet, p, permutation>>

\* return results
ReportReturn ==
    /\ pc = "report_loop"
    /\ idx = Len(probabilities_list)
    /\ result' = results
    /\ pc' = "report_done"
    /\ UNCHANGED <<keyCount, keyStateProbabilities, wallets, states, ownerStates,
                   advStates, state_probabilities, built, scenarioVars, reportVars, heapVars,
                   idx, wallet, p, permutation, best_wallets, best_prob>>

NextReport == ReportCall \/ ReportValidate \/ ReportFind \/ ReportReturn

SpecReport == InitReport /\ [][NextReport]_vars

\* the indices of the scenarios whose total is more than 1e-9 away from 1
InvalidScenarios ==
    {i \in 1..Len(probabilities_list) :
        FLess(TOL, FAbs(FSub(profileTotal(probabilities_list[i]), One)))}

\* every scenario has the four entries, none negative, and sums to 1 within 1e-9
AllScenariosValid ==
    \A i \in 1..Len(probabilities_list) :
        /\ DOMAIN probabilities_list[i] = KeyStateSet
        /\ \A k \in KeyStateSet : ~FLess(probabilities_list[i][k], FZero)
        /\ i \notin InvalidScenarios

Digits == <<"1", "2", "3", "4", "5", "6", "7", "8", "9">>

\* separator.join(strings)
RECURSIVE join(_, _)
join(separator, strings) ==
    IF strings = <<>> THEN ""
    ELSE IF Len(strings) = 1 THEN strings[1]
    ELSE strings[1] \o separator \o join(separator, Tail(strings))

\* the indices of the one bits of a number, from 1, as strings
RECURSIVE oneBitIndicesFrom(_, _)
oneBitIndicesFrom(number, i) ==
    IF number = 0 THEN <<>>
    ELSE (IF number % 2 = 1 THEN <<Digits[i]>> ELSE <<>>)
         \o oneBitIndicesFrom(number \div 2, i + 1)

oneBitIndices(number) == oneBitIndicesFrom(number, 1)

\* "(1 AND 2) OR (3)"
walletStrAscii(wallet_) ==
    join(" OR ", [i \in 1..Len(wallet_) |->
                     "(" \o join(" AND ", oneBitIndices(wallet_[i])) \o ")"])

\* wallet_to_str[key]: of the wallets with this sorted tuple, the last one's string
walletToStr(wallets_, key) ==
    LET last == CHOOSE i \in 1..Len(wallets_) :
                    /\ sorted(wallets_[i]) = key
                    /\ \A j \in 1..Len(wallets_) : sorted(wallets_[j]) = key => j <= i
    IN  walletStrAscii(wallets_[last])

\* faulty variant: an entry already recorded is overwritten
recordEntry_overwriting(dict, key, probs) == (key :> probs) @@ dict

\* if wallet_tuple not in wallet_optimal_probs: wallet_optimal_probs[wallet_tuple] = probs.copy()
recordEntry(dict, key, probs) ==
    IF key \in DOMAIN dict THEN dict ELSE dict @@ (key :> probs)

\* for optimal_wallet in optimal_wallets, from position i on, with the break
\* taken when the dict has an entry for every wallet
RECURSIVE recordFrom(_, _, _, _, _)
recordFrom(dict, optimal_wallets, i, probs, walletCount) ==
    IF i > Len(optimal_wallets) THEN dict
    ELSE LET key == sorted(optimal_wallets[i])
             next == recordEntry(dict, key, probs)
         IN  IF key \notin DOMAIN dict /\ Cardinality(DOMAIN next) = walletCount
             THEN next
             ELSE recordFrom(next, optimal_wallets, i + 1, probs, walletCount)

\* key counts of find_optimal_probability_for_each_wallet
MaxEachKeys == 2

EachProfiles == {ProfileTests, ProfileSkew, ProfileGrid}

EachScenarioLists == UNION {[1..n -> EachProfiles] : n \in 0..MaxScenarios}

\* the lists of wallets the experiments pass: the deduplicated enumeration,
\* its reverse, and the beginnings of the enumeration
EachWalletLists(keyCount_) ==
    LET all == enumerateStaticWallets(keyCount_)
        unique == enumerateStaticWalletsDeduplicated(keyCount_)
    IN  {unique, Reverse(unique)}
            \cup {SubSeq(all, 1, n) : n \in {m \in 0..Len(all) : m <= MaxCand}}

InitEach ==
    /\ pc = "each_idle"
    /\ keyCount = 0
    /\ keyStateProbabilities = <<>>
    /\ wallets = <<>>
    /\ states = <<>>
    /\ ownerStates = <<>>
    /\ advStates = <<>>
    /\ state_probabilities = <<>>
    /\ built = 0
    /\ step = FZero
    /\ include_zero = FALSE
    /\ min_safe = <<>>
    /\ max_theft = <<>>
    /\ probabilities_list = <<>>
    /\ deduplicate_by_architecture = FALSE
    /\ printed = <<>>
    /\ wallet_optimal_probs = <<>>
    /\ results = <<>>
    /\ heap = <<>>
    /\ stack = <<>>
    /\ idx = 0
    /\ wallet = <<>>
    /\ p = FZero
    /\ permutation = <<>>
    /\ best_wallets = <<>>
    /\ best_prob = FZero
    /\ result = <<>>

\* find_optimal_probability_for_each_wallet(probabilities_list, wallets, keyCount)
EachCall ==
    /\ pc = "each_idle"
    /\ \E k \in 1..MaxEachKeys, l \in EachScenarioLists :
          \E ws \in EachWalletLists(k) :
              /\ keyCount' = k
              /\ probabilities_list' = l
              /\ wallets' = ws
    /\ wallet_optimal_probs' = <<>>
    /\ idx' = 0
    /\ pc' = "each_loop"
    /\ UNCHANGED <<heapVars, keyStateProbabilities, states, ownerStates, advStates,
                   state_probabilities, built, scenarioVars,
                   deduplicate_by_architecture, printed, results, wallet, p,
                   permutation, best_wallets, best_prob, result>>

\* one iteration of: for idx, probs in enumerate(probabilities_list)
EachScenario ==
    /\ pc = "each_loop"
    /\ idx < Len(probabilities_list)
    /\ LET probs == probabilities_list[idx + 1]
           r == findOptimalWallet(wallets, keyCount, probs)
           dict == recordFrom(wallet_optimal_probs, r.best_wallets, 1, probs,
                              Len(wallets))
       IN  /\ r.ok
           /\ keyStateProbabilities' = probs
           /\ best_wallets' = r.best_wallets
           /\ built' = built + 1
           /\ wallet_optimal_probs' = dict
           /\ pc' = IF Cardinality(DOMAIN dict) = Len(wallets)
                    THEN "each_exit" ELSE "each_loop"
    /\ idx' = idx + 1
    /\ UNCHANGED <<heapVars, keyCount, wallets, states, ownerStates, advStates,
                   state_probabilities, scenarioVars, probabilities_list,
                   deduplicate_by_architecture, printed, results, wallet, p,
                   permutation, best_prob, result>>

\* the result keyed by the wallets' strings is returned
EachReturn ==
    /\ \/ pc = "each_loop" /\ idx = Len(probabilities_list)
       \/ pc = "each_exit"
    /\ result' = [str \in {walletToStr(wallets, key) : key \in DOMAIN wallet_optimal_probs}
                    |-> LET key == CHOOSE k \in DOMAIN wallet_optimal_probs :
                                       walletToStr(wallets, k) = str
                        IN  wallet_optimal_probs[key]]
    /\ pc' = "each_done"
    /\ UNCHANGED <<keyCount, keyStateProbabilities, wallets, states, ownerStates,
                   advStates, state_probabilities, built, scenarioVars, reportVars, heapVars,
                   idx, wallet, p, permutation, best_wallets, best_prob>>

NextEach == EachCall \/ EachScenario \/ EachReturn

SpecEach == InitEach /\ [][NextEach]_vars

\* the optimal set of every scenario of the list
OptimalSets ==
    [i \in 1..Len(probabilities_list) |->
        Range(findOptimalWallet(wallets, keyCount, probabilities_list[i]).best_wallets)]

\* the first scenario at which every wallet of the list is optimal, 0 for none
FirstOptimal(optimal) ==
    [n \in 1..Len(wallets) |->
        LET S == {i \in 1..Len(probabilities_list) : wallets[n] \in optimal[i]}
        IN  IF S = {} THEN 0 ELSE CHOOSE i \in S : \A j \in S : i <= j]

\* a step keeps every entry of the dict, with its value
EntriesKept ==
    \A key \in DOMAIN wallet_optimal_probs :
        /\ key \in DOMAIN wallet_optimal_probs'
        /\ wallet_optimal_probs'[key] = wallet_optimal_probs[key]

(***************************************************************************)
(* C26: find_optimal_probability_for_each_wallet maps each wallet to the   *)
(* first scenario of probabilities_list at which the wallet is in the      *)
(* optimal set returned by findOptimalWallet; a wallet optimal in no       *)
(* scenario is absent from the result; and no step, the early exit         *)
(* included, changes an entry already recorded.                            *)
(***************************************************************************)
C26_FirstOptimalScenario ==
    /\ [](pc = "each_done" =>
            LET optimal == OptimalSets
                first == FirstOptimal(optimal)
            IN  /\ Len(first) = Len(wallets)
                /\ \A n \in 1..Len(wallets) :
                      IF first[n] = 0
                      THEN walletStrAscii(wallets[n]) \notin DOMAIN result
                      ELSE /\ walletStrAscii(wallets[n]) \in DOMAIN result
                           /\ result[walletStrAscii(wallets[n])]
                                  = probabilities_list[first[n]]
                /\ \A str \in DOMAIN result :
                      \E n \in 1..Len(wallets) : walletStrAscii(wallets[n]) = str)
    /\ [][(pc = "each_loop" \/ pc = "each_exit") => EntriesKept]_vars

\* the early exit is taken before the last scenario, one wallet having become
\* optimal at the second scenario only
C26_Witness ==
    /\ pc = "each_done"
    /\ Len(wallets) = 2
    /\ Len(probabilities_list) >= 2
    /\ walletStrAscii(wallets[1]) \in DOMAIN result
    /\ walletStrAscii(wallets[2]) \in DOMAIN result
    /\ result[walletStrAscii(wallets[1])] # result[walletStrAscii(wallets[2])]

(***************************************************************************)
(* findOptimalWallet over the full and over the deduplicated enumeration.  *)
(***************************************************************************)
\* key counts of the comparison
MaxOptimumKeys == 3

\* 0.9999999999945, 4.9999999999725e-13, 4.999999999972499e-12, 0.0: sums to 1.0
ProfileTieChain ==
    Profile([s |-> 0, m |-> <<20383, 32767, 32767, 63>>, e |-> -51],
            [s |-> 0, m |-> <<16343, 301, 12083, 70>>, e |-> -92],
            [s |-> 0, m |-> <<24473, 17137, 30207, 175>>, e |-> -90],
            FZero)

OptimumProfiles == CompleteProfiles \cup GridProfiles(GridSteps) \cup {ProfileTieChain}

InitOptimum ==
    /\ pc = "optimum_idle"
    /\ keyCount = 0
    /\ keyStateProbabilities = <<>>
    /\ wallets = <<>>
    /\ states = <<>>
    /\ ownerStates = <<>>
    /\ advStates = <<>>
    /\ state_probabilities = <<>>
    /\ built = 0
    /\ step = FZero
    /\ include_zero = FALSE
    /\ min_safe = <<>>
    /\ max_theft = <<>>
    /\ probabilities_list = <<>>
    /\ deduplicate_by_architecture = FALSE
    /\ printed = <<>>
    /\ wallet_optimal_probs = <<>>
    /\ results = <<>>
    /\ heap = <<>>
    /\ stack = <<>>
    /\ idx = 0
    /\ wallet = <<>>
    /\ p = FZero
    /\ permutation = <<>>
    /\ best_wallets = <<>>
    /\ best_prob = FZero
    /\ result = <<>>

\* findOptimalWallet(enumerateStaticWallets(keyCount), keyCount, probs)
OptimumFull ==
    /\ pc = "optimum_idle"
    /\ \E k \in 1..MaxOptimumKeys, probs \in OptimumProfiles :
          /\ keyCount' = k
          /\ keyStateProbabilities' = probs
          /\ wallets' = enumerateStaticWallets(k)
          /\ LET r == findOptimalWallet(enumerateStaticWallets(k), k, probs)
             IN  /\ r.ok
                 /\ result' = [best_wallets |-> r.best_wallets,
                               best_prob |-> r.best_prob]
    /\ built' = built + 1
    /\ pc' = "optimum_full"
    /\ UNCHANGED <<states, ownerStates, advStates, state_probabilities,
                   scenarioVars, reportVars, heapVars, idx, wallet, p, permutation,
                   best_wallets, best_prob>>

\* findOptimalWallet(enumerateStaticWallets(keyCount, True), keyCount, probs)
OptimumDeduplicated ==
    /\ pc = "optimum_full"
    /\ wallets' = enumerateStaticWalletsDeduplicated(keyCount)
    /\ LET r == findOptimalWallet(enumerateStaticWalletsDeduplicated(keyCount),
                                  keyCount, keyStateProbabilities)
       IN  /\ r.ok
           /\ best_wallets' = r.best_wallets
           /\ best_prob' = r.best_prob
    /\ built' = built + 1
    /\ pc' = "optimum_done"
    /\ UNCHANGED <<keyCount, keyStateProbabilities, states, ownerStates,
                   advStates, state_probabilities, scenarioVars, reportVars, heapVars, idx,
                   wallet, p, permutation, result>>

NextOptimum == OptimumFull \/ OptimumDeduplicated

SpecOptimum == InitOptimum /\ [][NextOptimum]_vars

(***************************************************************************)
(* C27: for every keyCount >= 1 and every valid profile, findOptimalWallet *)
(* over the deduplicated enumeration returns the best probability it       *)
(* returns over the full enumeration, and every wallet returned for the    *)
(* full enumeration has the canonical form of a wallet returned for the    *)
(* deduplicated one.                                                       *)
(***************************************************************************)
C27_DeduplicationKeepsOptimum ==
    (pc = "optimum_done" /\ keyCount >= 1 /\ ValidProfile) =>
        /\ best_prob = result.best_prob
        /\ \A i \in 1..Len(result.best_wallets) :
              \E j \in 1..Len(best_wallets) :
                  canonicalizeWallet(result.best_wallets[i], keyCount)
                      = canonicalizeWallet(best_wallets[j], keyCount)

(***************************************************************************)
(* The operations on objects.  A list or a dict is an entry of heap, and a *)
(* variable, a local of a frame or an element of a list of wallets holds   *)
(* its index.  In this specification wallets, keyStateProbabilities and    *)
(* best_wallets hold such indices; list + list, copy.copy and [] make a    *)
(* new entry, += and append change an entry in place.                      *)
(***************************************************************************)
\* key counts of the run on objects
MaxHeapKeys == 3

HeapProfiles == {ProfileTests, ProfileTieChain}

\* faulty variant: currWallet is baseWallet itself, extended in place
extendWallet_in_place(h, baseWallet, currCombi) ==
    [heap |-> [h EXCEPT ![baseWallet] = Append(@, currCombi)], ref |-> baseWallet]

\* currWallet = baseWallet + [currCombi]
extendWallet(h, baseWallet, currCombi) ==
    [heap |-> Append(h, Append(h[baseWallet], currCombi)), ref |-> Len(h) + 1]

\* the wallets a list of wallets holds
Deref(h, list) == [i \in 1..Len(h[list]) |-> h[h[list][i]]]

Top == stack[Len(stack)]

InitHeap ==
    /\ pc = "heap_idle"
    /\ keyCount = 0
    /\ keyStateProbabilities = 0
    /\ wallets = 0
    /\ states = <<>>
    /\ ownerStates = <<>>
    /\ advStates = <<>>
    /\ state_probabilities = <<>>
    /\ built = 0
    /\ step = FZero
    /\ include_zero = FALSE
    /\ min_safe = <<>>
    /\ max_theft = <<>>
    /\ probabilities_list = <<>>
    /\ deduplicate_by_architecture = FALSE
    /\ printed = <<>>
    /\ wallet_optimal_probs = <<>>
    /\ results = <<>>
    /\ heap = <<>>
    /\ stack = <<>>
    /\ idx = 0
    /\ wallet = <<>>
    /\ p = FZero
    /\ permutation = <<>>
    /\ best_wallets = 0
    /\ best_prob = FZero
    /\ result = <<>>

\* enumerateStaticWallets(keyCount, deduplicate_by_architecture) calls
\* enumerateStaticSubWallets(baseWallet=[], prevCombi=0, keyCount=keyCount),
\* which starts with wallets = []
HeapCall ==
    /\ pc = "heap_idle"
    /\ \E k \in 1..MaxHeapKeys, flag \in BOOLEAN :
          /\ keyCount' = k
          /\ deduplicate_by_architecture' = flag
    /\ heap' = <<<<>>, <<>>>>
    /\ stack' = <<[baseWallet |-> 1, currCombi |-> 1, wallets |-> 2]>>
    /\ pc' = "enumerate"
    /\ UNCHANGED <<keyStateProbabilities, wallets, states, ownerStates, advStates,
                   state_probabilities, built, scenarioVars, probabilities_list,
                   printed, wallet_optimal_probs, results, idx, wallet, p,
                   permutation, best_wallets, best_prob, result>>

\* an iteration of the loop whose currCombi is covered by baseWallet
EnumCovered ==
    /\ pc = "enumerate"
    /\ Top.currCombi < Pow2(keyCount)
    /\ isCovered(Top.currCombi, heap[Top.baseWallet])
    /\ stack' = [stack EXCEPT ![Len(stack)].currCombi = @ + 1]
    /\ UNCHANGED <<pc, keyCount, keyStateProbabilities, wallets, states, ownerStates,
                   advStates, state_probabilities, built, scenarioVars, reportVars,
                   heap, idx, wallet, p, permutation, best_wallets, best_prob,
                   result>>

\* an iteration that extends baseWallet: currWallet = baseWallet + [currCombi],
\* wallets += [copy.copy(currWallet)], and the recursive call is entered
EnumExtend ==
    /\ pc = "enumerate"
    /\ Top.currCombi < Pow2(keyCount)
    /\ ~isCovered(Top.currCombi, heap[Top.baseWallet])
    /\ LET currWallet == extendWallet(heap, Top.baseWallet, Top.currCombi)
           copied == Append(currWallet.heap, currWallet.heap[currWallet.ref])
           added == [copied EXCEPT ![Top.wallets] = Append(@, Len(copied))]
       IN  /\ heap' = Append(added, <<>>)
           /\ stack' = Append(stack, [baseWallet |-> currWallet.ref,
                                      currCombi |-> Top.currCombi + 1,
                                      wallets |-> Len(added) + 1])
    /\ UNCHANGED <<pc, keyCount, keyStateProbabilities, wallets, states, ownerStates,
                   advStates, state_probabilities, built, scenarioVars, reportVars,
                   idx, wallet, p, permutation, best_wallets, best_prob, result>>

\* return wallets from a recursive call: the caller does wallets += the list
\* returned and goes on with its next currCombi
EnumReturn ==
    /\ pc = "enumerate"
    /\ Top.currCombi = Pow2(keyCount)
    /\ Len(stack) > 1
    /\ LET caller == stack[Len(stack) - 1]
       IN  /\ heap' = [heap EXCEPT ![caller.wallets] = @ \o heap[Top.wallets]]
           /\ stack' = [SubSeq(stack, 1, Len(stack) - 1)
                            EXCEPT ![Len(stack) - 1].currCombi = @ + 1]
    /\ UNCHANGED <<pc, keyCount, keyStateProbabilities, wallets, states, ownerStates,
                   advStates, state_probabilities, built, scenarioVars, reportVars,
                   idx, wallet, p, permutation, best_wallets, best_prob, result>>

\* return wallets from the outermost call, to enumerateStaticWallets
EnumDone ==
    /\ pc = "enumerate"
    /\ Top.currCombi = Pow2(keyCount)
    /\ Len(stack) = 1
    /\ wallets' = Top.wallets
    /\ stack' = <<>>
    /\ pc' = IF deduplicate_by_architecture THEN "deduplicate" ELSE "listed"
    /\ UNCHANGED <<keyCount, keyStateProbabilities, states, ownerStates, advStates,
                   state_probabilities, built, scenarioVars, reportVars, heap, idx,
                   wallet, p, permutation, best_wallets, best_prob, result>>

\* deduplicateWalletsByArchitecture(wallets, keyCount): seen = set(), unique = []
DedupCall ==
    /\ pc = "deduplicate"
    /\ heap' = Append(heap, <<>>)
    /\ stack' = <<[wallets |-> wallets, seen |-> {}, unique |-> Len(heap) + 1]>>
    /\ idx' = 0
    /\ pc' = "dedup_loop"
    /\ UNCHANGED <<keyCount, keyStateProbabilities, wallets, states, ownerStates,
                   advStates, state_probabilities, built, scenarioVars, reportVars,
                   wallet, p, permutation, best_wallets, best_prob, result>>

\* one iteration of: for wallet in wallets
DedupStep ==
    /\ pc = "dedup_loop"
    /\ idx < Len(heap[Top.wallets])
    /\ LET ref == heap[Top.wallets][idx + 1]
           canon == canonicalizeWallet(heap[ref], keyCount)
       IN  IF canon \notin Top.seen
           THEN /\ stack' = [stack EXCEPT ![Len(stack)].seen = seenAdd(@, canon)]
                /\ heap' = [heap EXCEPT ![Top.unique] = Append(@, ref)]
           ELSE UNCHANGED <<stack, heap>>
    /\ idx' = idx + 1
    /\ UNCHANGED <<pc, keyCount, keyStateProbabilities, wallets, states, ownerStates,
                   advStates, state_probabilities, built, scenarioVars, reportVars,
                   wallet, p, permutation, best_wallets, best_prob, result>>

\* return unique; enumerateStaticWallets binds it to wallets and returns it
DedupReturn ==
    /\ pc = "dedup_loop"
    /\ idx = Len(heap[Top.wallets])
    /\ wallets' = Top.unique
    /\ stack' = <<>>
    /\ pc' = "listed"
    /\ UNCHANGED <<keyCount, keyStateProbabilities, states, ownerStates, advStates,
                   state_probabilities, built, scenarioVars, reportVars, heap, idx,
                   wallet, p, permutation, best_wallets, best_prob, result>>

\* findOptimalWallet(wallets, keyCount, keyStateProbabilities) on a dict of the
\* caller: the state space is built, best_wallets = [], best_prob = -1.0
HeapFindCall ==
    /\ pc = "listed"
    /\ \E probs \in HeapProfiles :
          LET r == enumerateStates(keyCount, probs)
              oa == ownerAdvKeysFromStates(r.states)
          IN  /\ r.ok
              /\ heap' = Append(Append(heap, probs), initialBest.best_wallets)
              /\ states' = r.states
              /\ state_probabilities' = r.probabilities
              /\ ownerStates' = oa.ownerStates
              /\ advStates' = oa.advStates
    /\ keyStateProbabilities' = Len(heap) + 1
    /\ best_wallets' = Len(heap) + 2
    /\ best_prob' = initialBest.best_prob
    /\ built' = built + 1
    /\ idx' = 0
    /\ pc' = "heap_find_loop"
    /\ UNCHANGED <<keyCount, wallets, scenarioVars, reportVars, stack, wallet, p,
                   permutation, result>>

\* one iteration of: for wallet in wallets; a tie is appended to the list
\* best_wallets refers to, a better wallet starts a new list
HeapFindScan ==
    /\ pc = "heap_find_loop"
    /\ idx < Len(heap[wallets])
    /\ LET ref == heap[wallets][idx + 1]
           pw == computeSuccessProbability(heap[ref], ownerStates, advStates,
                                           state_probabilities)
       IN  /\ wallet' = heap[ref]
           /\ p' = pw
           /\ IF FLess(FAbs(FSub(pw, best_prob)), EPS)
              THEN /\ heap' = [heap EXCEPT ![best_wallets] = Append(@, ref)]
                   /\ UNCHANGED <<best_wallets, best_prob>>
              ELSE IF FLess(best_prob, pw)
              THEN /\ best_prob' = pw
                   /\ heap' = Append(heap, <<ref>>)
                   /\ best_wallets' = Len(heap) + 1
              ELSE UNCHANGED <<heap, best_wallets, best_prob>>
    /\ idx' = idx + 1
    /\ UNCHANGED <<pc, keyCount, keyStateProbabilities, wallets, states, ownerStates,
                   advStates, state_probabilities, built, scenarioVars, reportVars,
                   stack, permutation, result>>

\* return best_wallets, best_prob
HeapFindReturn ==
    /\ pc = "heap_find_loop"
    /\ idx = Len(heap[wallets])
    /\ result' = [best_wallets |-> best_wallets, best_prob |-> best_prob]
    /\ pc' = "heap_done"
    /\ UNCHANGED <<keyCount, keyStateProbabilities, wallets, states, ownerStates,
                   advStates, state_probabilities, built, scenarioVars, reportVars,
                   heapVars, idx, wallet, p, permutation, best_wallets, best_prob>>

NextHeap ==
    \/ HeapCall
    \/ EnumCovered
    \/ EnumExtend
    \/ EnumReturn
    \/ EnumDone
    \/ DedupCall
    \/ DedupStep
    \/ DedupReturn
    \/ HeapFindCall
    \/ HeapFindScan
    \/ HeapFindReturn

SpecHeap == InitHeap /\ [][NextHeap]_vars

\* the objects keep their content in this step
Kept(refs) == \A r \in refs : heap'[r] = heap[r]

\* the baseWallet of every call of enumerateStaticSubWallets in progress
BaseWallets == {stack[i].baseWallet : i \in 1..Len(stack)}

\* the wallets emitted so far, into the list of any call in progress
Emitted == UNION {Range(heap[stack[i].wallets]) : i \in 1..Len(stack)}

\* the candidate list and the candidate wallets
Candidates == {wallets} \cup Range(heap[wallets])

InputsKept ==
    /\ pc = "enumerate" => Kept(BaseWallets \cup Emitted)
    /\ (pc = "deduplicate" \/ pc = "dedup_loop" \/ pc = "listed") => Kept(Candidates)
    /\ pc = "heap_find_loop" => Kept(Candidates \cup {keyStateProbabilities})

\* what enumerateStaticWallets returns as values
Listed ==
    IF deduplicate_by_architecture
    THEN enumerateStaticWalletsDeduplicated(keyCount)
    ELSE enumerateStaticWallets(keyCount)

(***************************************************************************)
(* C28: no step of enumerateStaticSubWallets changes the baseWallet of a   *)
(* call in progress or a wallet already emitted; no step of                *)
(* deduplicateWalletsByArchitecture or of findOptimalWallet (with its      *)
(* calls of computeSuccessProbability) changes the candidate list, a       *)
(* candidate wallet or the probability profile; so at the end the          *)
(* candidates are the wallets enumerated and the profile is the one given. *)
(***************************************************************************)
C28_InputsUnchanged ==
    /\ [][InputsKept]_vars
    /\ [](pc = "heap_done" =>
             /\ Deref(heap, wallets) = Listed
             /\ heap[keyStateProbabilities] \in HeapProfiles
             /\ heap[1] = <<>>)

C28_Witness ==
    /\ pc = "heap_done"
    /\ keyCount = 3
    /\ deduplicate_by_architecture
    /\ Len(heap[wallets]) = 8
    /\ Len(heap[best_wallets]) >= 1
    /\ Len(heap) > 50

====
